---- MODULE Spec2Model ----
(***************************************************************************)
(* Auto-processing / caching pipeline of the research desktop application: *)
(* the SQLite source store (database.ts), deduplicating ingestion and the  *)
(* debounced trigger (main/index.ts), the research agent runner and the    *)
(* single-flight scheduler (research-agent.ts).                            *)
(***************************************************************************)
EXTENDS Integers, Sequences, FiniteSets, TLC

\* ------------------------------------------------------------------------
\* Bounds of the model
\* ------------------------------------------------------------------------
MaxEmailId == 2
MaxEventId == 1
MaxContent == 2
MaxBatch == 2
MaxTimers == 2
MaxManual == 1
MaxQueries == 1
MaxInsightId == 1
MaxSteps == 1
MaxLog == 2
MaxExec == 1
MaxInsightRuns == 1
MaxDay == 13
MaxTicks == 2
MaxCallsPerStep == 2
MaxSearches == 10
MaxAgentRuns == 1
MaxVariedSteps == 2
MaxWipes == 1

EmailIds == 1..MaxEmailId
EventIds == 1..MaxEventId
Contents == 1..MaxContent

NoLocation == "undefined"
Locations == {NoLocation, "Zoom"}

\* An EmailMessage / CalendarEvent as delivered by a provider: the id and
\* the content fields (for events the optional location is kept apart
\* because the store converts it).
EmailMessage == [id : EmailIds, content : Contents]
CalendarEvent == [id : EventIds, content : Contents, location : Locations]

Keys == ({"email"} \X EmailIds) \cup ({"calendar"} \X EventIds)

\* AgentResult: the output text and the log of search queries.
ToolCallLogs == UNION {[1..m -> {"q"}] : m \in 0..MaxQueries}
AgentResult == [output : {"text"}, toolCalls : ToolCallLogs]

NoKey == <<"none", 0>>

\* A call's return value as observed by its caller.
NoRet == [kind |-> "none", value |-> 0]
CountRet(n) == [kind |-> "count", value |-> n]
ResultRet(r) == [kind |-> "result", value |-> r]
NullRet == [kind |-> "null", value |-> 0]
ErrorRet == [kind |-> "error", value |-> 0]
ItemsRet(rows, newCount) == [kind |-> "items", value |-> [rows |-> rows, newCount |-> newCount]]

\* What the latest step did, as an outside observer sees it: the operation,
\* the key it was about, the value a call returned in this step (NoRet when
\* no call returned), the keys generateText was invoked for in this step and
\* the notifications the step gave, in their order.
Observe(op, key, ret, invoked) ==
  [op |-> op, key |-> key, ret |-> ret, invoked |-> invoked, sent |-> <<>>]

\* onItemProcessed(type, id), which sends 'item-processed', and the send of
\* 'processing-complete' by the timer callback
ItemProcessed(key) == [event |-> "item-processed", key |-> key]
ProcessingComplete == [event |-> "processing-complete", key |-> NoKey]
Notify(observation, sent) == [observation EXCEPT !.sent = sent]

SeqsUpTo(S, n) == UNION {[1..m -> S] : m \in 0..n}
EmailBatches == SeqsUpTo(EmailMessage, MaxBatch)
EventBatches == SeqsUpTo(CalendarEvent, MaxBatch)

\* The pipeline does not look at content fields: its providers deliver every
\* item in one content version.
FetchedEmails == {b \in EmailBatches : \A i \in DOMAIN b : b[i].content = 1}
FetchedEvents == {b \in EventBatches :
                    \A i \in DOMAIN b : b[i].content = 1 /\ b[i].location = NoLocation}

\* The fixture collections of mock-data.ts (every fixture event has a location).
MOCK_EMAILS == [i \in EmailIds |-> [id |-> i, content |-> 1]]
MOCK_EVENTS == [i \in EventIds |-> [id |-> i, content |-> 1, location |-> "Zoom"]]

\* Insights inputs are keyed by (type, id) like research items.
InsightsInputTypes == {"email-reply", "transcript"}
InsightKeys == InsightsInputTypes \X (1..MaxInsightId)

\* An optional field: absent (undefined, or dropped by JSON) or given.
Absent == <<>>
Given(v) == <<v>>
OptionalText == {Absent, Given("x")}

\* ActionStep: type, description and the optional type-specific fields.
EmailSteps ==
  [type : {"email"}, description : {"title"},
   to : OptionalText, subject : OptionalText, body : OptionalText,
   meetingSummary : {Absent}, attendees : {Absent}, durationMinutes : {Absent}]
MeetingSteps ==
  [type : {"meeting"}, description : {"title"},
   to : {Absent}, subject : {Absent}, body : {Absent},
   meetingSummary : OptionalText, attendees : {Absent, Given(<<"a@b">>)},
   durationMinutes : {Absent, Given(45)}]
ActionSteps == EmailSteps \cup MeetingSteps
InsightsResult == [actionSteps : SeqsUpTo(ActionSteps, MaxSteps)]

\* actionIndex as the caller passes it (0-based, any integer)
ActionIndexes == (0 - 1)..MaxSteps

\* What sendGmailReply / createCalendarEvent resolve to.
ProviderResults ==
  {[success |-> TRUE, id |-> Given("id-1"), error |-> Absent],
   [success |-> FALSE, id |-> Absent, error |-> Given("provider error")]}

\* ActionExecution as returned by executeAction
ExecutionRet(actionIndex, status, id, error) ==
  [kind |-> "execution",
   value |-> [actionIndex |-> actionIndex, status |-> status, id |-> id, error |-> error]]

\* durationMinutes || 30
DefaultDuration == 30

\* Local time: day number (day 0 is a Sunday), hour and minute.
Times == [day : 0..MaxDay, hour : 0..23, minute : {0, 30}]
AppStart == [day |-> 5, hour |-> 15, minute |-> 0]

VARIABLES
  emails,            \* table emails, rows in rowid (insertion) order
  events,            \* table events, rows in rowid (insertion) order
  research_results,  \* table research_results, a set of rows
  isProcessing,      \* research-agent.ts module-level guard
  items,             \* snapshot of the current / most recent run
  idx,               \* position of the for-loop in items (0 = no run yet)
  processed,         \* local counter of processNewItems
  outcome,           \* per snapshot item handled so far: "ok" | "fail" | "hit"
  timers,            \* pending setTimeout callbacks of triggerAutoProcess
  running,           \* processNewItems calls between snapshot and guard reset
  manual,            \* in-flight manual run-research model calls per key
  dirty,             \* keys written while a manual call for them is in flight
  savedResult,       \* the AgentResult most recently handed to saveResearch
  last,              \* observation of the latest step
  lastUpsert,        \* <<[type, batch, again]>> of the latest upsert call, if any
  isAuthenticated,   \* google-auth.ts module-level flag
  insights_results,  \* table insights_results, a set of rows
  insights_action_log, \* table insights_action_log, rows in rowid order
  insightsRuns,      \* in-flight runInsightsAgent model calls per key
  execs,             \* in-flight executeAction calls awaiting their provider
  gmailSends,        \* number of sendGmailReply calls made so far
  calendarInserts,   \* number of createCalendarEvent calls made so far
  now,               \* the wall clock (new Date())
  meetingCall,       \* <<[start, durationMinutes]>> computed for the latest meeting, if any
  agent,             \* <<the run-research call being followed step by step>>, with the
                     \* queries execute was called for and how many of them failed
  wipes              \* number of delete-all-data requests handled so far

vars == <<emails, events, research_results, isProcessing, items, idx,
          processed, outcome, timers, running, manual, dirty, savedResult,
          last, lastUpsert, isAuthenticated, insights_results,
          insights_action_log, insightsRuns, execs, gmailSends,
          calendarInserts, now, meetingCall, agent, wipes>>

storeVars == <<emails, events, research_results, savedResult>>
manualVars == <<manual, dirty>>
schedVars == <<isProcessing, items, idx, processed, outcome, running>>
insightVars == <<insights_results, insights_action_log, insightsRuns, execs,
                 gmailSends, calendarInserts>>
clockVars == <<now, meetingCall>>
agentVars == <<agent>>
wipeVars == <<wipes>>
\* what the research pipeline and the store operations on items never touch
restVars == <<isAuthenticated, insightVars, clockVars, agentVars, wipeVars>>
\* what the insights agent and the action executor never touch
pipelineVars == <<storeVars, schedVars, timers, manualVars, lastUpsert>>

\* ------------------------------------------------------------------------
\* database.ts
\* ------------------------------------------------------------------------

\* SELECT id FROM <table>
existingIdsOf(table) == {table[i].id : i \in DOMAIN table}

rowIndex(table, id) == CHOOSE i \in DOMAIN table : table[i].id = id

\* location: event.location || null
orNull(location) == IF location = "" \/ location = NoLocation THEN NoLocation ELSE location

\* JSON.stringify / JSON.parse of a column value
stringify(v) == <<"json", v>>
parse(s) == s[2]

\* (mutant) INSERT OR IGNORE: an existing row is left as it is
insertOrIgnore(table, row) ==
  IF row.id \in existingIdsOf(table) THEN table ELSE Append(table, row)

\* (mutant) INSERT OR REPLACE: the existing row is deleted and a fresh row,
\* with the column defaults, is inserted
insertOrReplace(table, row) ==
  LET others(r) == r.id # row.id IN Append(SelectSeq(table, others), row)

\* INSERT ... ON CONFLICT(id) DO UPDATE SET <content columns>: a new row gets
\* processed = 0 (column default), an existing row keeps id and processed.
insertRun(table, row) ==
  IF row.id \in existingIdsOf(table)
  THEN [table EXCEPT ![rowIndex(table, row.id)] =
          [row EXCEPT !.processed = table[rowIndex(table, row.id)].processed]]
  ELSE Append(table, row)

\* (mutant) the row is inserted with processed = 1
emailRowMarked(email) == [id |-> email.id, content |-> email.content, processed |-> TRUE]

\* the row an insert writes: the content columns of the call; processed is
\* left to its column default 0
emailRow(email) == [id |-> email.id, content |-> email.content, processed |-> FALSE]
eventRow(event) == [id |-> event.id, content |-> event.content,
                    location |-> orNull(event.location), processed |-> FALSE]

RECURSIVE emailsTx(_, _, _, _)
emailsTx(table, batch, existingIds, newCount) ==
  IF batch = <<>> THEN [table |-> table, newCount |-> newCount]
  ELSE emailsTx(insertRun(table, emailRow(Head(batch))), Tail(batch), existingIds,
                IF Head(batch).id \notin existingIds THEN newCount + 1 ELSE newCount)

upsertEmails(table, batch) == emailsTx(table, batch, existingIdsOf(table), 0)

RECURSIVE eventsTx(_, _, _, _)
eventsTx(table, batch, existingIds, newCount) ==
  IF batch = <<>> THEN [table |-> table, newCount |-> newCount]
  ELSE eventsTx(insertRun(table, eventRow(Head(batch))), Tail(batch), existingIds,
                IF Head(batch).id \notin existingIds THEN newCount + 1 ELSE newCount)

upsertEvents(table, batch) == eventsTx(table, batch, existingIdsOf(table), 0)

\* (mutant) no transaction: every insert.run commits on its own
autocommit(before, partial) == partial

\* d.transaction(fn)(): when fn throws, ROLLBACK restores the state at BEGIN
\* and the exception is thrown on
transaction(before, partial) == before

\* upsertEmails / upsertEvents when the f-th insert.run of the batch throws:
\* the writes before it were applied inside the transaction
upsertEmailsThrowing(table, batch, f) ==
  transaction(table, emailsTx(table, SubSeq(batch, 1, f - 1), existingIdsOf(table), 0).table)

upsertEventsThrowing(table, batch, f) ==
  transaction(table, eventsTx(table, SubSeq(batch, 1, f - 1), existingIdsOf(table), 0).table)

\* (mutant) the WHERE clause is missing: every row is selected
allRowsOf(type, table) == [i \in DOMAIN table |-> <<type, table[i].id>>]

\* SELECT ... WHERE processed = 0, emails first, then events
unprocessedOf(type, table) ==
  LET keep(row) == ~row.processed
      keyOf(row) == <<type, row.id>>
      sel == SelectSeq(table, keep)
  IN [i \in DOMAIN sel |-> keyOf(sel[i])]

getUnprocessedItems == unprocessedOf("email", emails) \o unprocessedOf("calendar", events)

\* (mutant) the UPDATE matches no row
markNoRows(table, id) == table

\* UPDATE <table> SET processed = 1 WHERE id = ?
markRows(table, id) ==
  [i \in DOMAIN table |-> IF table[i].id = id THEN [table[i] EXCEPT !.processed = TRUE]
                          ELSE table[i]]

markProcessed(emailsT, eventsT, type, id) ==
  IF type = "email" THEN [emails |-> markRows(emailsT, id), events |-> eventsT]
  ELSE [emails |-> emailsT, events |-> markRows(eventsT, id)]

\* rows of research_results with the given (source_type, source_id)
researchRows(results, key) ==
  {r \in results : r.source_type = key[1] /\ r.source_id = key[2]}

\* INSERT INTO research_results ... ON CONFLICT(source_type, source_id) DO UPDATE
saveResearch(results, key, result) ==
  (results \ researchRows(results, key)) \cup
    {[source_type |-> key[1], source_id |-> key[2], output |-> result.output,
      tool_calls |-> stringify(result.toolCalls)]}

\* (mutant) the tool call log is not read back
getResearchWithoutToolCalls(results, key) ==
  IF researchRows(results, key) = {} THEN <<>>
  ELSE LET row == CHOOSE r \in researchRows(results, key) : TRUE
       IN <<[output |-> row.output, toolCalls |-> <<>>]>>

\* SELECT output, tool_calls ... .get(): the empty sequence stands for null
getResearch(results, key) ==
  IF researchRows(results, key) = {} THEN <<>>
  ELSE LET row == CHOOSE r \in researchRows(results, key) : TRUE
       IN <<[output |-> row.output, toolCalls |-> parse(row.tool_calls)]>>

\* SELECT ... FROM emails / events (the stored collection without the flag)
getAllEmails(table) == {[id |-> table[i].id, content |-> table[i].content] : i \in DOMAIN table}
getAllEvents(table) == {[id |-> table[i].id, content |-> table[i].content,
                         location |-> table[i].location] : i \in DOMAIN table}

\* rows of insights_results with the given (source_type, source_id)
insightsRows(results, key) ==
  {r \in results : r.source_type = key[1] /\ r.source_id = key[2]}

\* (mutant) INSERT OR IGNORE: a stored result is not overwritten
saveInsightsOrIgnore(results, key, result) ==
  IF insightsRows(results, key) # {} THEN results
  ELSE results \cup {[source_type |-> key[1], source_id |-> key[2],
                      action_steps |-> stringify(result.actionSteps)]}

\* INSERT INTO insights_results ... ON CONFLICT(source_type, source_id) DO UPDATE
saveInsights(results, key, result) ==
  (results \ insightsRows(results, key)) \cup
    {[source_type |-> key[1], source_id |-> key[2],
      action_steps |-> stringify(result.actionSteps)]}

\* SELECT ... FROM insights_results ... .get(): the empty sequence stands for null
getInsights(results, key) ==
  IF insightsRows(results, key) = {} THEN <<>>
  ELSE LET row == CHOOSE r \in insightsRows(results, key) : TRUE
       IN <<[actionSteps |-> parse(row.action_steps)]>>

\* (mutant) the insert is skipped
logNothing(log, key, actionIndex, status) == log

\* a clock reading as a number of minutes; datetime('now') texts compare alike
timeValue(t) == (t.day * 24 + t.hour) * 60 + t.minute

\* INSERT INTO insights_action_log (source_type, source_id, action_index, status);
\* executed_at is the column default datetime('now'), the clock reading at
\* the column's resolution
logActionExecution(log, key, actionIndex, status) ==
  Append(log, [source_type |-> key[1], source_id |-> key[2],
               action_index |-> actionIndex, status |-> status, executed_at |-> now])

\* { actionIndex, status, executedAt } of the rows at the positions order
actionLogView(log, order) ==
  [i \in DOMAIN order |-> [actionIndex |-> log[order[i]].action_index,
                           status |-> log[order[i]].status,
                           executedAt |-> log[order[i]].executed_at]]

\* SELECT ... FROM insights_action_log WHERE source_type = ? AND source_id = ?
\* ORDER BY executed_at DESC: the results the query can produce; the order
\* among rows with equal executed_at is not defined by the query
getActionLog(log, key) ==
  LET mine == {i \in DOMAIN log : log[i].source_type = key[1] /\ log[i].source_id = key[2]}
      orders == {order \in [1..Cardinality(mine) -> mine] :
                   /\ \A a, b \in DOMAIN order : a # b => order[a] # order[b]
                   /\ \A a, b \in DOMAIN order :
                        a < b => timeValue(log[order[a]].executed_at)
                                   >= timeValue(log[order[b]].executed_at)}
  IN {actionLogView(log, order) : order \in orders}

\* JavaScript truthiness of an optional string / number (!f)
missingText(f) == f = Absent \/ f = Given("")
missingNumber(f) == f = Absent \/ f = Given(0)

\* ------------------------------------------------------------------------
\* Derived views
\* ------------------------------------------------------------------------
tableOf(type) == IF type = "email" THEN emails ELSE events
Stored(key) == key[2] \in existingIdsOf(tableOf(key[1]))
StoredKeys == {k \in Keys : Stored(k)}
IsProcessed(key) == Stored(key) /\ tableOf(key[1])[rowIndex(tableOf(key[1]), key[2])].processed
Cached(key) == getResearch(research_results, key) # <<>>

\* The state after start-up at local time start: empty tables, idle scheduler.
InitAt(start) ==
  /\ emails = <<>>
  /\ events = <<>>
  /\ research_results = {}
  /\ isProcessing = FALSE
  /\ items = <<>>
  /\ idx = 0
  /\ processed = 0
  /\ outcome = <<>>
  /\ timers = 0
  /\ running = 0
  /\ manual = [k \in Keys |-> 0]
  /\ dirty = {}
  /\ savedResult = [k \in Keys |-> <<>>]
  /\ last = Observe("init", NoKey, NoRet, {})
  /\ lastUpsert = <<>>
  /\ isAuthenticated = FALSE
  /\ insights_results = {}
  /\ insights_action_log = <<>>
  /\ insightsRuns = [k \in InsightKeys |-> 0]
  /\ execs = <<>>
  /\ gmailSends = 0
  /\ calendarInserts = 0
  /\ meetingCall = <<>>
  /\ now = start
  /\ agent = <<>>
  /\ wipes = 0

Init == InitAt(AppStart)


\* ------------------------------------------------------------------------
\* main/index.ts: ingestion and the debounced trigger
\* ------------------------------------------------------------------------

\* (mutant) no delayed call is queued
triggerNothing(pending) == pending

\* (mutant) two delayed calls are queued
triggerTwice(pending) == pending + 2

\* triggerAutoProcess: setTimeout(..., 1000) queues one delayed call
triggerAutoProcess(pending) == pending + 1

\* fetchAndUpsertEmails: the provider (Gmail or the fixture fallback) delivers
\* batch; upsert, trigger when newCount > 0, return the stored collection.
FetchAndUpsertEmails(batch) ==
  LET r == upsertEmails(emails, batch) IN
  /\ r.newCount > 0 => timers < MaxTimers
  /\ emails' = r.table
  /\ timers' = IF r.newCount > 0 THEN triggerAutoProcess(timers) ELSE timers
  /\ last' = Observe("get-emails", NoKey, ItemsRet(getAllEmails(r.table), r.newCount), {})
  /\ UNCHANGED <<events, research_results, savedResult, schedVars, manualVars, lastUpsert, restVars>>

FetchAndUpsertEvents(batch) ==
  LET r == upsertEvents(events, batch) IN
  /\ r.newCount > 0 => timers < MaxTimers
  /\ events' = r.table
  /\ timers' = IF r.newCount > 0 THEN triggerAutoProcess(timers) ELSE timers
  /\ last' = Observe("get-events", NoKey, ItemsRet(getAllEvents(r.table), r.newCount), {})
  /\ UNCHANGED <<emails, research_results, savedResult, schedVars, manualVars, lastUpsert, restVars>>

\* google-auth.ts: authenticate() completes the OAuth flow; signOut()
Authenticate ==
  /\ ~isAuthenticated
  /\ isAuthenticated' = TRUE
  /\ last' = Observe("google-auth", NoKey, NoRet, {})
  /\ UNCHANGED <<pipelineVars, insightVars, clockVars, agentVars, wipeVars>>

SignOut ==
  /\ isAuthenticated' = FALSE
  /\ last' = Observe("google-sign-out", NoKey, NoRet, {})
  /\ UNCHANGED <<pipelineVars, insightVars, clockVars, agentVars, wipeVars>>

\* What a call of getGmailEmails / getCalendarEvents does when the client is
\* authenticated: it raises (ok = FALSE) or resolves to a batch.
GmailFetches ==
  {[ok |-> FALSE, batch |-> <<>>]} \cup {[ok |-> TRUE, batch |-> b] : b \in FetchedEmails}
CalendarFetches ==
  {[ok |-> FALSE, batch |-> <<>>]} \cup
  {[ok |-> TRUE, batch |-> b] : b \in {e \in EventBatches : \A i \in DOMAIN e : e[i].content = 1}}

getMockEmails == MOCK_EMAILS
getMockEvents == MOCK_EVENTS

\* (mutant) no fallback: a failing provider leaves nothing to upsert
emailsWithoutFallback(authenticated, fetch) ==
  IF authenticated /\ fetch.ok THEN fetch.batch ELSE <<>>

\* lines 60-70: the provider's batch, or the fixtures when the client is not
\* authenticated or the fetch raises
emailsToUpsert(authenticated, fetch) ==
  IF authenticated /\ fetch.ok THEN fetch.batch ELSE getMockEmails

eventsToUpsert(authenticated, fetch) ==
  IF authenticated /\ fetch.ok THEN fetch.batch ELSE getMockEvents

\* ipcMain.handle('get-emails') / ('get-events') with the provider's behaviour
GetEmails(fetch) == FetchAndUpsertEmails(emailsToUpsert(isAuthenticated, fetch))
GetEvents(fetch) == FetchAndUpsertEvents(eventsToUpsert(isAuthenticated, fetch))

\* ------------------------------------------------------------------------
\* research-agent.ts: processNewItems
\* ------------------------------------------------------------------------

\* The for-loop from position i up to its next suspension point.  Calling
\* runResearchAgent on a cached item returns the cached result without
\* awaiting the model (no store write), the item is counted and
\* onItemProcessed is called for it; on a cache miss the loop suspends in
\* generateText.  Past the last item the run ends.
RECURSIVE loopFrom(_, _, _, _, _, _)
loopFrom(snapshot, results, i, count, outcomes, sent) ==
  IF i > Len(snapshot)
  THEN [idx |-> i, processed |-> count, outcome |-> outcomes, sent |-> sent,
        awaiting |-> FALSE]
  ELSE IF getResearch(results, snapshot[i]) # <<>>
  THEN loopFrom(snapshot, results, i + 1, count + 1, Append(outcomes, "hit"),
                Append(sent, ItemProcessed(snapshot[i])))
  ELSE [idx |-> i, processed |-> count, outcome |-> outcomes, sent |-> sent,
        awaiting |-> TRUE]

\* The scheduler state after the loop has advanced to l; when the loop is
\* past the last item the guard is cleared, processNewItems returns and the
\* timer callback that awaited it sends 'processing-complete'.
Resume(op, key, snapshot, l) ==
  /\ items' = snapshot
  /\ idx' = l.idx
  /\ processed' = l.processed
  /\ outcome' = l.outcome
  /\ isProcessing' = l.awaiting
  /\ last' = Notify(Observe(op, key, IF l.awaiting THEN NoRet ELSE CountRet(l.processed),
                            IF l.awaiting THEN {snapshot[l.idx]} ELSE {}),
                    IF l.awaiting THEN l.sent ELSE Append(l.sent, ProcessingComplete))

\* a processNewItems call is suspended in the model call of items[idx]
Awaiting == isProcessing /\ running > 0 /\ idx \in 1..Len(items)

\* (mutant) a trigger arriving during a run starts the pass over again
TriggerRestartsPass ==
  /\ timers > 0
  /\ isProcessing
  /\ timers' = timers - 1
  /\ idx' = 1
  /\ processed' = 0
  /\ outcome' = <<>>
  /\ last' = Observe("dropped", NoKey, NoRet, {items[1]})
  /\ UNCHANGED <<storeVars, items, isProcessing, running, manualVars, lastUpsert, restVars>>

\* a timer fires while a run is in flight: `if (isProcessing) return 0`; the
\* timer callback goes on to send 'processing-complete'
TriggerDropped ==
  /\ timers > 0
  /\ isProcessing
  /\ timers' = timers - 1
  /\ last' = Notify(Observe("dropped", NoKey, CountRet(0), {}), <<ProcessingComplete>>)
  /\ UNCHANGED <<storeVars, schedVars, manualVars, lastUpsert, restVars>>

\* a timer fires, nothing is unprocessed: `if (items.length === 0) return 0`;
\* the timer callback goes on to send 'processing-complete'
TriggerNoWork ==
  /\ timers > 0
  /\ ~isProcessing
  /\ getUnprocessedItems = <<>>
  /\ timers' = timers - 1
  /\ last' = Notify(Observe("nowork", NoKey, CountRet(0), {}), <<ProcessingComplete>>)
  /\ UNCHANGED <<storeVars, schedVars, manualVars, lastUpsert, restVars>>

\* (mutant) the guard is not consulted
RunStartUnguarded ==
  /\ timers > 0
  /\ getUnprocessedItems # <<>>
  /\ timers' = timers - 1
  /\ LET l == loopFrom(getUnprocessedItems, research_results, 1, 0, <<>>, <<>>)
     IN /\ Resume("start", NoKey, getUnprocessedItems, l)
        /\ running' = IF l.awaiting THEN running + 1 ELSE running
  /\ UNCHANGED <<storeVars, manualVars, lastUpsert, restVars>>

\* a timer fires and a run starts: snapshot, set the guard, enter the loop
RunStart ==
  /\ timers > 0
  /\ ~isProcessing
  /\ getUnprocessedItems # <<>>
  /\ timers' = timers - 1
  /\ LET l == loopFrom(getUnprocessedItems, research_results, 1, 0, <<>>, <<>>)
     IN /\ Resume("start", NoKey, getUnprocessedItems, l)
        /\ running' = IF l.awaiting THEN running + 1 ELSE running
  /\ UNCHANGED <<storeVars, manualVars, lastUpsert, restVars>>

\* (mutant) the scheduler sends a follow-up email for the item it finished
SchedModelOkSendsFollowUp(result) ==
  /\ Awaiting
  /\ LET key == items[idx]
         m == markProcessed(emails, events, key[1], key[2])
         l == loopFrom(items, saveResearch(research_results, key, result),
                       idx + 1, processed + 1, Append(outcome, "ok"),
                       <<ItemProcessed(key)>>)
     IN /\ research_results' = saveResearch(research_results, key, result)
        /\ savedResult' = [savedResult EXCEPT ![key] = <<result>>]
        /\ emails' = m.emails
        /\ events' = m.events
        /\ Resume("sched-ok", key, items, l)
        /\ running' = IF l.awaiting THEN running ELSE running - 1
        /\ dirty' = IF manual[key] > 0 THEN dirty \cup {key} ELSE dirty
  /\ gmailSends' = gmailSends + 1
  /\ UNCHANGED <<timers, manual, lastUpsert, isAuthenticated, insights_results,
                 insights_action_log, insightsRuns, execs, calendarInserts, clockVars, agentVars, wipeVars>>

\* (mutant) the processed flag of the finished item is not written before
\* the loop goes on to the next item
SchedModelOkMarksLater(result) ==
  /\ Awaiting
  /\ LET key == items[idx]
         l == loopFrom(items, saveResearch(research_results, key, result),
                       idx + 1, processed + 1, Append(outcome, "ok"),
                       <<ItemProcessed(key)>>)
     IN /\ research_results' = saveResearch(research_results, key, result)
        /\ savedResult' = [savedResult EXCEPT ![key] = <<result>>]
        /\ Resume("sched-ok", key, items, l)
        /\ running' = IF l.awaiting THEN running ELSE running - 1
        /\ dirty' = IF manual[key] > 0 THEN dirty \cup {key} ELSE dirty
  /\ UNCHANGED <<emails, events, timers, manual, lastUpsert, restVars>>

\* (mutant) the loop reads the unprocessed items again after every item
SchedModelOkResnapshots(result) ==
  /\ Awaiting
  /\ LET key == items[idx]
         m == markProcessed(emails, events, key[1], key[2])
         again == SubSeq(items, 1, idx) \o unprocessedOf("email", m.emails)
                    \o unprocessedOf("calendar", m.events)
         l == loopFrom(again, saveResearch(research_results, key, result),
                       idx + 1, processed + 1, Append(outcome, "ok"),
                       <<ItemProcessed(key)>>)
     IN /\ research_results' = saveResearch(research_results, key, result)
        /\ savedResult' = [savedResult EXCEPT ![key] = <<result>>]
        /\ emails' = m.emails
        /\ events' = m.events
        /\ Resume("sched-ok", key, again, l)
        /\ running' = IF l.awaiting THEN running ELSE running - 1
        /\ dirty' = IF manual[key] > 0 THEN dirty \cup {key} ELSE dirty
  /\ UNCHANGED <<timers, manual, lastUpsert, restVars>>

\* generateText of the item in flight completes: runResearchAgent saves the
\* result and marks the item processed, the loop counts it, calls
\* onItemProcessed and goes on.
SchedModelOk(result) ==
  /\ Awaiting
  /\ LET key == items[idx]
         m == markProcessed(emails, events, key[1], key[2])
         l == loopFrom(items, saveResearch(research_results, key, result),
                       idx + 1, processed + 1, Append(outcome, "ok"),
                       <<ItemProcessed(key)>>)
     IN /\ research_results' = saveResearch(research_results, key, result)
        /\ savedResult' = [savedResult EXCEPT ![key] = <<result>>]
        /\ emails' = m.emails
        /\ events' = m.events
        /\ Resume("sched-ok", key, items, l)
        /\ running' = IF l.awaiting THEN running ELSE running - 1
        /\ dirty' = IF manual[key] > 0 THEN dirty \cup {key} ELSE dirty
  /\ UNCHANGED <<timers, manual, lastUpsert, restVars>>

\* (mutant) the catch block does not mark the item processed
SchedModelFailUnmarked ==
  /\ Awaiting
  /\ LET key == items[idx]
         l == loopFrom(items, research_results, idx + 1, processed,
                       Append(outcome, "fail"), <<>>)
     IN /\ Resume("sched-fail", key, items, l)
        /\ running' = IF l.awaiting THEN running ELSE running - 1
  /\ UNCHANGED <<storeVars, timers, manualVars, lastUpsert, restVars>>

\* (mutant) onItemProcessed is called for a failed item as well
SchedModelFailNotifies ==
  /\ Awaiting
  /\ LET key == items[idx]
         m == markProcessed(emails, events, key[1], key[2])
         l == loopFrom(items, research_results, idx + 1, processed,
                       Append(outcome, "fail"), <<ItemProcessed(key)>>)
     IN /\ emails' = m.emails
        /\ events' = m.events
        /\ Resume("sched-fail", key, items, l)
        /\ running' = IF l.awaiting THEN running ELSE running - 1
        /\ dirty' = IF manual[key] > 0 THEN dirty \cup {key} ELSE dirty
  /\ UNCHANGED <<research_results, savedResult, timers, manual, lastUpsert, restVars>>

\* generateText of the item in flight throws: the catch block marks the
\* item processed and the loop goes on.
SchedModelFail ==
  /\ Awaiting
  /\ LET key == items[idx]
         m == markProcessed(emails, events, key[1], key[2])
         l == loopFrom(items, research_results, idx + 1, processed,
                       Append(outcome, "fail"), <<>>)
     IN /\ emails' = m.emails
        /\ events' = m.events
        /\ Resume("sched-fail", key, items, l)
        /\ running' = IF l.awaiting THEN running ELSE running - 1
        /\ dirty' = IF manual[key] > 0 THEN dirty \cup {key} ELSE dirty
  /\ UNCHANGED <<research_results, savedResult, timers, manual, lastUpsert, restVars>>

\* ------------------------------------------------------------------------
\* main/index.ts: IPC handlers run-research and get-research
\* ------------------------------------------------------------------------

InFlightManual == {k \in Keys : manual[k] > 0}
RECURSIVE SumOver(_, _)
SumOver(f, S) == IF S = {} THEN 0
                 ELSE LET k == CHOOSE x \in S : TRUE IN f[k] + SumOver(f, S \ {k})

\* run-research on an item whose result is cached: returned as is
ManualHit(key) ==
  /\ Stored(key)
  /\ Cached(key)
  /\ last' = Observe("run-hit", key, ResultRet(getResearch(research_results, key)[1]), {})
  /\ UNCHANGED <<storeVars, schedVars, timers, manualVars, lastUpsert, restVars>>

\* run-research on an item without cached result: generateText is invoked
ManualStart(key) ==
  /\ Stored(key)
  /\ ~Cached(key)
  /\ SumOver(manual, Keys) < MaxManual
  /\ manual' = [manual EXCEPT ![key] = @ + 1]
  /\ last' = Observe("run-miss", key, NoRet, {key})
  /\ UNCHANGED <<storeVars, schedVars, timers, dirty, lastUpsert, restVars>>

\* the manual call's generateText completes: save, mark processed, return
ManualOk(key, result) ==
  /\ manual[key] > 0
  /\ LET m == markProcessed(emails, events, key[1], key[2])
     IN /\ research_results' = saveResearch(research_results, key, result)
        /\ savedResult' = [savedResult EXCEPT ![key] = <<result>>]
        /\ emails' = m.emails
        /\ events' = m.events
  /\ manual' = [manual EXCEPT ![key] = @ - 1]
  /\ dirty' = IF manual[key] > 1 THEN dirty \cup {key} ELSE dirty \ {key}
  /\ last' = Observe("run-ok", key, ResultRet(result), {})
  /\ UNCHANGED <<schedVars, timers, lastUpsert, restVars>>

\* (mutant) a failing manual call marks the item processed, as the
\* scheduler's catch block does
ManualFailMarksProcessed(key) ==
  /\ manual[key] > 0
  /\ LET m == markProcessed(emails, events, key[1], key[2])
     IN /\ emails' = m.emails
        /\ events' = m.events
  /\ manual' = [manual EXCEPT ![key] = @ - 1]
  /\ dirty' = IF manual[key] > 1 THEN dirty ELSE dirty \ {key}
  /\ last' = Observe("run-fail", key, ErrorRet, {})
  /\ UNCHANGED <<research_results, savedResult, schedVars, timers, lastUpsert, restVars>>

\* the manual call's generateText throws: the error reaches the handler
ManualFail(key) ==
  /\ manual[key] > 0
  /\ manual' = [manual EXCEPT ![key] = @ - 1]
  /\ dirty' = IF manual[key] > 1 THEN dirty ELSE dirty \ {key}
  /\ last' = Observe("run-fail", key, ErrorRet, {})
  /\ UNCHANGED <<storeVars, schedVars, timers, lastUpsert, restVars>>

\* get-research: db.getResearch(type, sourceId)
GetResearch(key) ==
  /\ last' = Observe("get-research", key,
                     IF Cached(key) THEN ResultRet(getResearch(research_results, key)[1])
                     ELSE NullRet, {})
  /\ UNCHANGED <<storeVars, schedVars, timers, manualVars, lastUpsert, restVars>>

\* ------------------------------------------------------------------------
\* insights-agent.ts: runInsightsAgent
\* ------------------------------------------------------------------------
InFlightInsights == SumOver(insightsRuns, InsightKeys)

\* cache hit (lines 150-154)
RunInsightsHit(key) ==
  /\ getInsights(insights_results, key) # <<>>
  /\ last' = Observe("insights-hit", key, ResultRet(getInsights(insights_results, key)[1]), {})
  /\ UNCHANGED <<pipelineVars, isAuthenticated, insightVars, clockVars, agentVars, wipeVars>>

\* cache miss: the call suspends in generateText (line 169)
RunInsightsStart(key) ==
  /\ getInsights(insights_results, key) = <<>>
  /\ InFlightInsights < MaxInsightRuns
  /\ insightsRuns' = [insightsRuns EXCEPT ![key] = @ + 1]
  /\ last' = Observe("insights-start", key, NoRet, {key})
  /\ UNCHANGED <<pipelineVars, isAuthenticated, insights_results, insights_action_log,
                 execs, gmailSends, calendarInserts, clockVars, agentVars, wipeVars>>

\* the model produced structured output: save and return (lines 199-210)
RunInsightsOk(key, result) ==
  /\ insightsRuns[key] > 0
  /\ insightsRuns' = [insightsRuns EXCEPT ![key] = @ - 1]
  /\ insights_results' = saveInsights(insights_results, key, result)
  /\ last' = Observe("insights-ok", key, ResultRet(result), {})
  /\ UNCHANGED <<pipelineVars, isAuthenticated, insights_action_log, execs, gmailSends,
                 calendarInserts, clockVars, agentVars, wipeVars>>

\* (mutant) a failed run persists an empty result
RunInsightsFailSavesEmpty(key) ==
  /\ insightsRuns[key] > 0
  /\ insightsRuns' = [insightsRuns EXCEPT ![key] = @ - 1]
  /\ insights_results' = saveInsights(insights_results, key, [actionSteps |-> <<>>])
  /\ last' = Observe("insights-fail", key, ErrorRet, {})
  /\ UNCHANGED <<pipelineVars, isAuthenticated, insights_action_log, execs, gmailSends,
                 calendarInserts, clockVars, agentVars, wipeVars>>

\* generateText throws, or result.output is empty and line 189 throws
RunInsightsFail(key) ==
  /\ insightsRuns[key] > 0
  /\ insightsRuns' = [insightsRuns EXCEPT ![key] = @ - 1]
  /\ last' = Observe("insights-fail", key, ErrorRet, {})
  /\ UNCHANGED <<pipelineVars, isAuthenticated, insights_results, insights_action_log,
                 execs, gmailSends, calendarInserts, clockVars, agentVars, wipeVars>>

\* ------------------------------------------------------------------------
\* insights-agent.ts: executeAction
\* ------------------------------------------------------------------------

\* (mutant) tomorrow, whatever day of the week it is
tomorrowAsIs(day) == day

\* getNextBusinessDayStart: tomorrow, moved on while it is a Sunday (0) or a
\* Saturday (6), at 10:00:00.000
RECURSIVE skipWeekend(_)
skipWeekend(day) == IF day % 7 \in {0, 6} THEN skipWeekend(day + 1) ELSE day

getNextBusinessDayStart(t) == [day |-> skipWeekend(t.day + 1), hour |-> 10, minute |-> 0]

\* (mutant) an index outside the array is clamped to the first element
actionAtClamped(steps, actionIndex) ==
  IF steps = <<>> THEN <<>>
  ELSE IF actionIndex + 1 \in DOMAIN steps THEN <<steps[actionIndex + 1]>> ELSE <<steps[1]>>

\* insights.actionSteps[actionIndex]: empty when the index names no element
actionAt(steps, actionIndex) ==
  IF actionIndex + 1 \in DOMAIN steps THEN <<steps[actionIndex + 1]>> ELSE <<>>

\* the action executeAction finds for its arguments, if any (lines 248-256)
cachedAction(key, actionIndex) ==
  LET insights == getInsights(insights_results, key)
  IN IF insights = <<>> THEN <<>> ELSE actionAt(insights[1].actionSteps, actionIndex)

removeAt(seq, n) == SubSeq(seq, 1, n - 1) \o SubSeq(seq, n + 1, Len(seq))

\* room left in the bounded action log
CanExecute == Len(insights_action_log) + Len(execs) < MaxLog

\* throw new Error('No insights found for this source')
ExecNoInsights(key, actionIndex) ==
  /\ getInsights(insights_results, key) = <<>>
  /\ last' = Observe("execute-action", key, ErrorRet, {})
  /\ UNCHANGED <<pipelineVars, isAuthenticated, insightVars, clockVars, agentVars, wipeVars>>

\* throw new Error(`Action at index ... not found`)
ExecBadIndex(key, actionIndex) ==
  /\ getInsights(insights_results, key) # <<>>
  /\ cachedAction(key, actionIndex) = <<>>
  /\ last' = Observe("execute-action", key, ErrorRet, {})
  /\ UNCHANGED <<pipelineVars, isAuthenticated, insightVars, clockVars, agentVars, wipeVars>>

\* (mutant) a failure for missing fields is returned without being logged
ExecEmailMissingUnlogged(key, actionIndex) ==
  /\ cachedAction(key, actionIndex) # <<>>
  /\ LET action == cachedAction(key, actionIndex)[1] IN
       /\ action.type = "email"
       /\ missingText(action.to) \/ missingText(action.subject) \/ missingText(action.body)
  /\ CanExecute
  /\ last' = Observe("execute-action", key,
                     ExecutionRet(actionIndex, "failed", Absent, Given("Missing email fields")), {})
  /\ UNCHANGED <<pipelineVars, isAuthenticated, insightVars, clockVars, agentVars, wipeVars>>

\* executeEmailAction, lines 279-288: a field is missing
ExecEmailMissing(key, actionIndex) ==
  /\ cachedAction(key, actionIndex) # <<>>
  /\ LET action == cachedAction(key, actionIndex)[1] IN
       /\ action.type = "email"
       /\ missingText(action.to) \/ missingText(action.subject) \/ missingText(action.body)
  /\ CanExecute
  /\ insights_action_log' = logActionExecution(insights_action_log, key, actionIndex, "failed")
  /\ last' = Observe("execute-action", key,
                     ExecutionRet(actionIndex, "failed", Absent, Given("Missing email fields")), {})
  /\ UNCHANGED <<pipelineVars, isAuthenticated, insights_results, insightsRuns, execs,
                 gmailSends, calendarInserts, clockVars, agentVars, wipeVars>>

\* (mutant) an action that has an 'executed' record is not sent again
ExecEmailSendOnce(key, actionIndex) ==
  /\ cachedAction(key, actionIndex) # <<>>
  /\ LET action == cachedAction(key, actionIndex)[1] IN
       /\ action.type = "email"
       /\ ~(missingText(action.to) \/ missingText(action.subject) \/ missingText(action.body))
  /\ CanExecute
  /\ Len(execs) < MaxExec
  /\ IF \E i \in DOMAIN insights_action_log :
          /\ insights_action_log[i].source_type = key[1]
          /\ insights_action_log[i].source_id = key[2]
          /\ insights_action_log[i].action_index = actionIndex
          /\ insights_action_log[i].status = "executed"
     THEN /\ last' = Observe("execute-action", key,
                             ExecutionRet(actionIndex, "executed", Absent, Absent), {})
          /\ UNCHANGED <<gmailSends, execs>>
     ELSE /\ gmailSends' = gmailSends + 1
          /\ execs' = Append(execs, [key |-> key, actionIndex |-> actionIndex, type |-> "email"])
          /\ last' = Observe("execute-start", key, NoRet, {})
  /\ UNCHANGED <<pipelineVars, isAuthenticated, insights_results, insights_action_log,
                 insightsRuns, calendarInserts, clockVars, agentVars, wipeVars>>

\* executeEmailAction, line 293: sendGmailReply is called and awaited
ExecEmailSend(key, actionIndex) ==
  /\ cachedAction(key, actionIndex) # <<>>
  /\ LET action == cachedAction(key, actionIndex)[1] IN
       /\ action.type = "email"
       /\ ~(missingText(action.to) \/ missingText(action.subject) \/ missingText(action.body))
  /\ CanExecute
  /\ Len(execs) < MaxExec
  /\ gmailSends' = gmailSends + 1
  /\ execs' = Append(execs, [key |-> key, actionIndex |-> actionIndex, type |-> "email"])
  /\ last' = Observe("execute-start", key, NoRet, {})
  /\ UNCHANGED <<pipelineVars, isAuthenticated, insights_results, insights_action_log,
                 insightsRuns, calendarInserts, clockVars, agentVars, wipeVars>>

\* executeMeetingAction, lines 325-342: defaults for absent fields, then
\* createCalendarEvent is called and awaited
ExecMeetingCreate(key, actionIndex) ==
  /\ cachedAction(key, actionIndex) # <<>>
  /\ cachedAction(key, actionIndex)[1].type = "meeting"
  /\ CanExecute
  /\ Len(execs) < MaxExec
  /\ LET action == cachedAction(key, actionIndex)[1]
         durationMinutes == IF missingNumber(action.durationMinutes) THEN DefaultDuration
                            ELSE action.durationMinutes[1]
     IN meetingCall' = <<[start |-> getNextBusinessDayStart(now),
                          durationMinutes |-> durationMinutes]>>
  /\ calendarInserts' = calendarInserts + 1
  /\ execs' = Append(execs, [key |-> key, actionIndex |-> actionIndex, type |-> "meeting"])
  /\ last' = Observe("execute-start", key, NoRet, {})
  /\ UNCHANGED <<pipelineVars, isAuthenticated, insights_results, insights_action_log,
                 insightsRuns, gmailSends, now, agentVars, wipeVars>>

\* (mutant) a provider failure is raised to the caller, nothing is logged
ExecProviderDoneRaises(n, result) ==
  /\ n \in DOMAIN execs
  /\ execs' = removeAt(execs, n)
  /\ insights_action_log' =
       IF result.success
       THEN logActionExecution(insights_action_log, execs[n].key, execs[n].actionIndex, "executed")
       ELSE insights_action_log
  /\ last' = Observe("execute-done", execs[n].key,
                     IF result.success
                     THEN ExecutionRet(execs[n].actionIndex, "executed", result.id, result.error)
                     ELSE ErrorRet, {})
  /\ UNCHANGED <<pipelineVars, isAuthenticated, insights_results, insightsRuns,
                 gmailSends, calendarInserts, clockVars, agentVars, wipeVars>>

\* the awaited provider call resolves (lines 295-316, 344-365): log, return
ExecProviderDone(n, result) ==
  /\ n \in DOMAIN execs
  /\ LET status == IF result.success THEN "executed" ELSE "failed" IN
       /\ insights_action_log' =
            logActionExecution(insights_action_log, execs[n].key, execs[n].actionIndex, status)
       /\ last' = Observe("execute-done", execs[n].key,
                          ExecutionRet(execs[n].actionIndex, status, result.id, result.error), {})
  /\ execs' = removeAt(execs, n)
  /\ UNCHANGED <<pipelineVars, isAuthenticated, insights_results, insightsRuns,
                 gmailSends, calendarInserts, clockVars, agentVars, wipeVars>>

\* const start = getNextBusinessDayStart() at the current time (line 329)
DefaultMeetingStart ==
  /\ meetingCall' = <<[start |-> getNextBusinessDayStart(now),
                       durationMinutes |-> DefaultDuration]>>
  /\ last' = Observe("default-start", NoKey, NoRet, {})
  /\ UNCHANGED <<pipelineVars, isAuthenticated, insightVars, now, agentVars, wipeVars>>

\* one call of executeAction(key[1], key[2], actionIndex), up to its return
\* or its first await
ExecuteAction(key, actionIndex) ==
  \/ ExecNoInsights(key, actionIndex)
  \/ ExecBadIndex(key, actionIndex)
  \/ ExecEmailMissing(key, actionIndex)
  \/ ExecEmailSend(key, actionIndex)
  \/ ExecMeetingCreate(key, actionIndex)

Next ==
  \/ \E batch \in FetchedEmails : FetchAndUpsertEmails(batch)
  \/ \E batch \in FetchedEvents : FetchAndUpsertEvents(batch)
  \/ TriggerDropped
  \/ TriggerNoWork
  \/ RunStart
  \/ \E result \in AgentResult : SchedModelOk(result)
  \/ SchedModelFail
  \/ \E key \in Keys : ManualHit(key)
  \/ \E key \in Keys : ManualStart(key)
  \/ \E key \in Keys, result \in AgentResult : ManualOk(key, result)
  \/ \E key \in Keys : ManualFail(key)
  \/ \E key \in Keys : GetResearch(key)

Spec == Init /\ [][Next]_vars

\* The scheduler with ingestion, without manual run-research requests.
NextSched ==
  \/ \E batch \in FetchedEmails : FetchAndUpsertEmails(batch)
  \/ \E batch \in FetchedEvents : FetchAndUpsertEvents(batch)
  \/ TriggerDropped
  \/ TriggerNoWork
  \/ RunStart
  \/ \E result \in AgentResult : SchedModelOk(result)
  \/ SchedModelFail

SchedSpec == Init /\ [][NextSched]_vars

\* The pipeline when every model call succeeds; setTimeout callbacks fire and
\* every model call completes.
NextOk ==
  \/ \E batch \in FetchedEmails : FetchAndUpsertEmails(batch)
  \/ \E batch \in FetchedEvents : FetchAndUpsertEvents(batch)
  \/ TriggerDropped
  \/ TriggerNoWork
  \/ RunStart
  \/ \E result \in AgentResult : SchedModelOk(result)
  \/ \E key \in Keys : GetResearch(key)

FairOkSpec ==
  /\ Init
  /\ [][NextOk]_vars
  /\ WF_vars(TriggerDropped \/ TriggerNoWork \/ RunStart)
  /\ WF_vars(\E result \in AgentResult : SchedModelOk(result))

\* ------------------------------------------------------------------------
\* database.ts called directly: upsertEmails, upsertEvents, markProcessed
\* ------------------------------------------------------------------------

\* the call repeats the batch of the latest upsert call before it
RepeatOf(type, batch) ==
  /\ lastUpsert # <<>>
  /\ lastUpsert[1].type = type
  /\ lastUpsert[1].batch = batch

UpsertEmails(batch) ==
  LET r == upsertEmails(emails, batch) IN
  /\ emails' = r.table
  /\ last' = Observe("upsertEmails", NoKey, CountRet(r.newCount), {})
  /\ lastUpsert' = <<[type |-> "email", batch |-> batch,
                       again |-> RepeatOf("email", batch)]>>
  /\ UNCHANGED <<events, research_results, savedResult, schedVars, timers, manualVars, restVars>>

UpsertEvents(batch) ==
  LET r == upsertEvents(events, batch) IN
  /\ events' = r.table
  /\ last' = Observe("upsertEvents", NoKey, CountRet(r.newCount), {})
  /\ lastUpsert' = <<[type |-> "calendar", batch |-> batch,
                       again |-> RepeatOf("calendar", batch)]>>
  /\ UNCHANGED <<emails, research_results, savedResult, schedVars, timers, manualVars, restVars>>

MarkProcessed(key) ==
  /\ LET m == markProcessed(emails, events, key[1], key[2])
     IN /\ emails' = m.emails
        /\ events' = m.events
  /\ last' = Observe("markProcessed", key, NoRet, {})
  /\ UNCHANGED <<research_results, savedResult, schedVars, timers, manualVars, lastUpsert, restVars>>

NextStore ==
  \/ \E batch \in EmailBatches : UpsertEmails(batch)
  \/ \E batch \in EventBatches : UpsertEvents(batch)
  \/ \E key \in Keys : MarkProcessed(key)

StoreSpec == Init /\ [][NextStore]_vars

\* Ingestion through the providers, with sign-in and sign-out, and the
\* scheduler it triggers.
NextIngest ==
  \/ Authenticate
  \/ SignOut
  \/ \E fetch \in GmailFetches : GetEmails(fetch)
  \/ \E fetch \in CalendarFetches : GetEvents(fetch)
  \/ TriggerDropped
  \/ TriggerNoWork
  \/ RunStart
  \/ \E result \in AgentResult : SchedModelOk(result)
  \/ SchedModelFail

IngestSpec == Init /\ [][NextIngest]_vars

\* The insights agent and the action executor on their own.
NextExec ==
  \/ \E key \in InsightKeys : RunInsightsHit(key)
  \/ \E key \in InsightKeys : RunInsightsStart(key)
  \/ \E key \in InsightKeys, result \in InsightsResult : RunInsightsOk(key, result)
  \/ \E key \in InsightKeys : RunInsightsFail(key)
  \/ \E key \in InsightKeys, actionIndex \in ActionIndexes : ExecNoInsights(key, actionIndex)
  \/ \E key \in InsightKeys, actionIndex \in ActionIndexes : ExecBadIndex(key, actionIndex)
  \/ \E key \in InsightKeys, actionIndex \in ActionIndexes : ExecEmailMissing(key, actionIndex)
  \/ \E key \in InsightKeys, actionIndex \in ActionIndexes : ExecEmailSend(key, actionIndex)
  \/ \E key \in InsightKeys, actionIndex \in ActionIndexes : ExecMeetingCreate(key, actionIndex)
  \/ \E n \in 1..MaxExec, result \in ProviderResults : ExecProviderDone(n, result)

ExecSpec == Init /\ [][NextExec]_vars

\* one step of processNewItems, called from the debounce timer
SchedulerStep ==
  \/ TriggerDropped
  \/ TriggerNoWork
  \/ RunStart
  \/ \E result \in AgentResult : SchedModelOk(result)
  \/ SchedModelFail

\* The whole application on the fixture providers (nobody signs in): email
\* and calendar ingestion with auto-processing, next to the insights agent
\* and the action executor on meeting transcripts whose action step is a
\* complete meeting or an email with or without a body.
Transcripts == {key \in InsightKeys : key[1] = "transcript"}
TranscriptInsights ==
  {r \in InsightsResult :
     /\ Len(r.actionSteps) = 1
     /\ r.actionSteps[1].type = "email" =>
          r.actionSteps[1].to # Absent /\ r.actionSteps[1].subject # Absent
     /\ r.actionSteps[1].type = "meeting" =>
          /\ r.actionSteps[1].meetingSummary # Absent
          /\ r.actionSteps[1].attendees # Absent
          /\ r.actionSteps[1].durationMinutes # Absent}

NextApp ==
  \/ \E fetch \in GmailFetches : GetEmails(fetch)
  \/ \E fetch \in CalendarFetches : GetEvents(fetch)
  \/ TriggerDropped
  \/ TriggerNoWork
  \/ RunStart
  \/ \E result \in AgentResult : SchedModelOk(result)
  \/ SchedModelFail
  \/ \E key \in Transcripts : RunInsightsHit(key)
  \/ \E key \in Transcripts : RunInsightsStart(key)
  \/ \E key \in Transcripts, result \in TranscriptInsights : RunInsightsOk(key, result)
  \/ \E key \in Transcripts : RunInsightsFail(key)
  \/ \E key \in Transcripts, actionIndex \in ActionIndexes : ExecEmailMissing(key, actionIndex)
  \/ \E key \in Transcripts, actionIndex \in ActionIndexes : ExecEmailSend(key, actionIndex)
  \/ \E key \in Transcripts, actionIndex \in ActionIndexes : ExecMeetingCreate(key, actionIndex)
  \/ \E n \in 1..MaxExec, result \in ProviderResults : ExecProviderDone(n, result)

AppSpec == Init /\ [][NextApp]_vars

\* getNextBusinessDayStart applied at every time of a fortnight.
NextClock == DefaultMeetingStart

ClockSpec == (\E start \in Times : InitAt(start)) /\ [][NextClock]_vars

\* ------------------------------------------------------------------------
\* database.ts called directly: saveResearch, getResearch, saveInsights,
\* getInsights
\* ------------------------------------------------------------------------

SaveResearch(key, result) ==
  /\ research_results' = saveResearch(research_results, key, result)
  /\ savedResult' = [savedResult EXCEPT ![key] = <<result>>]
  /\ last' = Observe("saveResearch", key, NoRet, {})
  /\ UNCHANGED <<emails, events, schedVars, timers, manualVars, lastUpsert, restVars>>

SaveInsights(key, result) ==
  /\ insights_results' = saveInsights(insights_results, key, result)
  /\ last' = Observe("saveInsights", key, NoRet, {})
  /\ UNCHANGED <<pipelineVars, isAuthenticated, insights_action_log, insightsRuns, execs,
                 gmailSends, calendarInserts, clockVars, agentVars, wipeVars>>

\* get-insights: db.getInsights(type, sourceId)
GetInsights(key) ==
  /\ last' = Observe("get-insights", key,
                     IF getInsights(insights_results, key) # <<>>
                     THEN ResultRet(getInsights(insights_results, key)[1])
                     ELSE NullRet, {})
  /\ UNCHANGED <<pipelineVars, isAuthenticated, insightVars, clockVars, agentVars, wipeVars>>

\* results whose single action step is an email with all its fields or
\* without a body, or there is no action step
SavedInsights ==
  {r \in InsightsResult :
     Len(r.actionSteps) = 1 =>
       /\ r.actionSteps[1].type = "email"
       /\ r.actionSteps[1].to # Absent
       /\ r.actionSteps[1].subject # Absent}

NextResults ==
  \/ \E key \in Keys, result \in AgentResult : SaveResearch(key, result)
  \/ \E key \in Keys : GetResearch(key)
  \/ \E key \in InsightKeys, result \in SavedInsights : SaveInsights(key, result)
  \/ \E key \in InsightKeys : GetInsights(key)

ResultsSpec == Init /\ [][NextResults]_vars

\* ------------------------------------------------------------------------
\* database.ts called directly, with writes that may fail
\* ------------------------------------------------------------------------

\* upsertEmails(batch) in which the f-th write fails: the call throws
UpsertEmailsThrows(batch, f) ==
  /\ f \in DOMAIN batch
  /\ emails' = upsertEmailsThrowing(emails, batch, f)
  /\ last' = Observe("upsertEmails-throws", NoKey, ErrorRet, {})
  /\ lastUpsert' = <<[type |-> "email-throws", batch |-> batch, again |-> FALSE]>>
  /\ UNCHANGED <<events, research_results, savedResult, schedVars, timers, manualVars, restVars>>

UpsertEventsThrows(batch, f) ==
  /\ f \in DOMAIN batch
  /\ events' = upsertEventsThrowing(events, batch, f)
  /\ last' = Observe("upsertEvents-throws", NoKey, ErrorRet, {})
  /\ lastUpsert' = <<[type |-> "calendar-throws", batch |-> batch, again |-> FALSE]>>
  /\ UNCHANGED <<emails, research_results, savedResult, schedVars, timers, manualVars, restVars>>

NextTx ==
  \/ \E batch \in EmailBatches : UpsertEmails(batch)
  \/ \E batch \in EventBatches : UpsertEvents(batch)
  \/ \E batch \in EmailBatches, f \in 1..MaxBatch : UpsertEmailsThrows(batch, f)
  \/ \E batch \in EventBatches, f \in 1..MaxBatch : UpsertEventsThrows(batch, f)
  \/ \E key \in Keys : MarkProcessed(key)

TxSpec == Init /\ [][NextTx]_vars

\* ------------------------------------------------------------------------
\* database.ts called directly: logActionExecution, getActionLog, while the
\* clock advances
\* ------------------------------------------------------------------------
LogRet(rows) == [kind |-> "log", value |-> rows]

Statuses == {"executed", "failed"}

\* the clock reaches the next reading
Tick ==
  /\ timeValue(now) < timeValue(AppStart) + MaxTicks * 30
  /\ now' = IF now.minute = 0 THEN [now EXCEPT !.minute = 30]
            ELSE IF now.hour < 23 THEN [now EXCEPT !.hour = @ + 1, !.minute = 0]
            ELSE [day |-> now.day + 1, hour |-> 0, minute |-> 0]
  /\ last' = Observe("tick", NoKey, NoRet, {})
  /\ UNCHANGED <<pipelineVars, isAuthenticated, insightVars, meetingCall, agentVars, wipeVars>>

LogActionExecution(key, actionIndex, status) ==
  /\ Len(insights_action_log) < MaxLog
  /\ insights_action_log' = logActionExecution(insights_action_log, key, actionIndex, status)
  /\ last' = Observe("logActionExecution", key, NoRet, {})
  /\ UNCHANGED <<pipelineVars, isAuthenticated, insights_results, insightsRuns, execs,
                 gmailSends, calendarInserts, clockVars, agentVars, wipeVars>>

\* ipcMain.handle('get-action-log'): db.getActionLog(sourceType, sourceId)
GetActionLog(key) ==
  /\ \E rows \in getActionLog(insights_action_log, key) :
       last' = Observe("get-action-log", key, LogRet(rows), {})
  /\ UNCHANGED <<pipelineVars, isAuthenticated, insightVars, clockVars, agentVars, wipeVars>>

NextLog ==
  \/ Tick
  \/ \E key \in InsightKeys, actionIndex \in 0..(MaxSteps - 1), status \in Statuses :
       LogActionExecution(key, actionIndex, status)
  \/ \E key \in InsightKeys : GetActionLog(key)

LogSpec == Init /\ [][NextLog]_vars

\* ------------------------------------------------------------------------
\* research-agent.ts: one run-research call followed through the tool-use
\* loop of generateText. Each step is one reply of the model, the execution
\* of the tool calls the reply asks for, and onStepFinish; the loop goes on
\* while the step had tool calls and stopWhen does not hold.
\* ------------------------------------------------------------------------
StepLimit == 10

Queries == {"q1", "q2"}
\* a tool call of a step as onStepFinish sees it
ToolCall == [toolName : {"linkupSearch"}, input : [query : Queries]]
StepCalls == SeqsUpTo(ToolCall, MaxCallsPerStep)
\* what the model may ask for in a step: anything in the first steps of a
\* run, then at most one search, always for the same query
StepCallsAfter(stepCount) ==
  IF stepCount < MaxVariedSteps THEN StepCalls
  ELSE {<<>>, <<[toolName |-> "linkupSearch", input |-> [query |-> "q1"]]>>}

\* (mutant) execute without its try/catch: a failing search raises
linkupSearchUncaught(input, searchOk) ==
  IF searchOk
  THEN [raised |-> FALSE, answer |-> "answer", error |-> Absent]
  ELSE [raised |-> TRUE, answer |-> "", error |-> Given("Search failed")]

\* linkupSearchTool.execute: the answer of linkup.search, or, when the
\* search raises, the value {answer: '', sources: [], error}
linkupSearchTool(input, searchOk) ==
  IF searchOk
  THEN [raised |-> FALSE, answer |-> "answer", error |-> Absent]
  ELSE [raised |-> FALSE, answer |-> "", error |-> Given("Search failed")]

\* (mutant) no stop condition
stepCountNever(n, steps) == FALSE

\* stopWhen: stepCountIs(10) holds when the run has that many steps
stepCountIs(n, steps) == steps = n

\* onStepFinish: one {tool, query} entry per linkupSearch call of the step
RECURSIVE onStepFinish(_, _)
onStepFinish(toolCallLog, toolCalls) ==
  IF toolCalls = <<>> THEN toolCallLog
  ELSE LET tc == Head(toolCalls)
           pushed == IF tc.toolName = "linkupSearch"
                     THEN Append(toolCallLog, [tool |-> "linkupSearch", query |-> tc.input.query])
                     ELSE toolCallLog
       IN onStepFinish(pushed, Tail(toolCalls))

AgentIdle == IF agent = <<>> THEN TRUE ELSE agent[1].phase \in {"done", "failed"}
AgentRuns == IF agent = <<>> THEN 0 ELSE agent[1].run

\* run-research, cache hit (lines 136-140): the cached result is returned
AgentHit(key) ==
  /\ AgentIdle
  /\ getResearch(research_results, key) # <<>>
  /\ last' = Observe("agent-hit", key, ResultRet(getResearch(research_results, key)[1]), {})
  /\ UNCHANGED <<pipelineVars, restVars>>

\* run-research, cache miss: toolCallLog = [], stepCount = 0, generateText
\* is called and asks the model for the first step
AgentStart(key) ==
  /\ AgentIdle
  /\ getResearch(research_results, key) = <<>>
  /\ AgentRuns < MaxAgentRuns
  /\ agent' = <<[key |-> key, run |-> AgentRuns + 1, phase |-> "model", stepCount |-> 0,
                 toolCallLog |-> <<>>,
                 searches |-> <<>>, failures |-> 0, toolCalls |-> <<>>, results |-> <<>>]>>
  /\ last' = Observe("agent-start", key, NoRet, {key})
  /\ UNCHANGED <<pipelineVars, isAuthenticated, insightVars, clockVars, wipeVars>>

\* the model replies with the step's text and tool calls
ModelReplies(toolCalls) ==
  /\ agent # <<>>
  /\ agent[1].phase = "model"
  /\ toolCalls \in StepCallsAfter(agent[1].stepCount)
  /\ Len(agent[1].searches) + Len(toolCalls) <= MaxSearches
  /\ agent' = <<[agent[1] EXCEPT !.phase = "tools", !.toolCalls = toolCalls, !.results = <<>>]>>
  /\ last' = Observe("agent-reply", agent[1].key, NoRet, {})
  /\ UNCHANGED <<pipelineVars, isAuthenticated, insightVars, clockVars, wipeVars>>

\* the model call raises: generateText rejects, runResearchAgent rejects
\* before line 195 and the handler returns {success: false}
ModelRaises ==
  /\ agent # <<>>
  /\ agent[1].phase = "model"
  /\ agent' = <<[agent[1] EXCEPT !.phase = "failed"]>>
  /\ last' = Observe("agent-fail", agent[1].key, ErrorRet, {})
  /\ UNCHANGED <<pipelineVars, isAuthenticated, insightVars, clockVars, wipeVars>>

\* execute is called for the step's next tool call, in the order of the
\* calls; linkup.search answers (searchOk) or raises
ToolExecute(searchOk) ==
  /\ agent # <<>>
  /\ agent[1].phase = "tools"
  /\ Len(agent[1].results) < Len(agent[1].toolCalls)
  /\ LET tc == agent[1].toolCalls[Len(agent[1].results) + 1]
         out == linkupSearchTool(tc.input, searchOk)
     IN /\ agent' = <<[agent[1] EXCEPT
                         !.searches = Append(@, tc.input.query),
                         !.failures = IF searchOk THEN @ ELSE @ + 1,
                         !.results = Append(@, out),
                         !.phase = IF out.raised THEN "failed" ELSE "tools"]>>
        /\ last' = Observe("agent-search", agent[1].key,
                           IF out.raised THEN ErrorRet ELSE NoRet, {})
  /\ UNCHANGED <<pipelineVars, isAuthenticated, insightVars, clockVars, wipeVars>>

\* every tool call of the step has resolved: onStepFinish runs; a step
\* without tool calls, or the step that makes stopWhen hold, ends the loop,
\* and runResearchAgent saves the result, marks the item and returns it
\* (lines 195-205); otherwise the model is asked for the next step
StepFinish ==
  /\ agent # <<>>
  /\ agent[1].phase = "tools"
  /\ Len(agent[1].results) = Len(agent[1].toolCalls)
  /\ LET key == agent[1].key
         stepCount == agent[1].stepCount + 1
         toolCallLog == onStepFinish(agent[1].toolCallLog, agent[1].toolCalls)
         agentResult == [output |-> "text", toolCalls |-> toolCallLog]
         m == markProcessed(emails, events, key[1], key[2])
     IN IF agent[1].toolCalls = <<>> \/ stepCountIs(StepLimit, stepCount)
        THEN /\ agent' = <<[agent[1] EXCEPT !.phase = "done", !.stepCount = stepCount,
                                             !.toolCallLog = toolCallLog]>>
             /\ research_results' = saveResearch(research_results, key, agentResult)
             /\ savedResult' = [savedResult EXCEPT ![key] = <<agentResult>>]
             /\ emails' = m.emails
             /\ events' = m.events
             /\ last' = Observe("agent-ok", key, ResultRet(agentResult), {})
        ELSE /\ agent' = <<[agent[1] EXCEPT !.phase = "model", !.stepCount = stepCount,
                                             !.toolCallLog = toolCallLog]>>
             /\ last' = Observe("agent-step", key, NoRet, {})
             /\ UNCHANGED storeVars
  /\ UNCHANGED <<schedVars, timers, manualVars, lastUpsert, isAuthenticated, insightVars,
                 clockVars, wipeVars>>

NextAgent ==
  \/ FetchAndUpsertEmails(MOCK_EMAILS)
  \/ \E key \in Keys : AgentHit(key) \/ AgentStart(key)
  \/ \E toolCalls \in StepCalls : ModelReplies(toolCalls)
  \/ ModelRaises
  \/ \E searchOk \in BOOLEAN : ToolExecute(searchOk)
  \/ StepFinish

AgentSpec == Init /\ [][NextAgent]_vars

\* ------------------------------------------------------------------------
\* processNewItems when something other than the model call throws
\* ------------------------------------------------------------------------

\* generateText of the item in flight completes and runResearchAgent saves
\* and marks; processed++ runs, then onItemProcessed throws: the exception is
\* caught by the item's catch block, which marks the item (again), and the
\* loop goes on.
SchedCallbackThrows(result) ==
  /\ Awaiting
  /\ LET key == items[idx]
         m == markProcessed(emails, events, key[1], key[2])
         again == markProcessed(m.emails, m.events, key[1], key[2])
         l == loopFrom(items, saveResearch(research_results, key, result),
                       idx + 1, processed + 1, Append(outcome, "ok"), <<>>)
     IN /\ research_results' = saveResearch(research_results, key, result)
        /\ savedResult' = [savedResult EXCEPT ![key] = <<result>>]
        /\ emails' = again.emails
        /\ events' = again.events
        /\ Resume("sched-callback-throws", key, items, l)
        /\ running' = IF l.awaiting THEN running ELSE running - 1
        /\ dirty' = IF manual[key] > 0 THEN dirty \cup {key} ELSE dirty
  /\ UNCHANGED <<timers, manual, lastUpsert, restVars>>

\* generateText of the item in flight throws and db.markProcessed, called in
\* the catch block (line 243), throws as well: nothing encloses the catch
\* block, so the exception leaves the for loop and processNewItems, whose
\* promise rejects; line 248 is not reached and the timer callback sends
\* nothing.
SchedMarkThrows ==
  /\ Awaiting
  /\ running' = running - 1
  /\ last' = Observe("sched-raises", items[idx], ErrorRet, {})
  /\ UNCHANGED <<storeVars, isProcessing, items, idx, processed, outcome, timers,
                 manualVars, lastUpsert, restVars>>

NextGuard ==
  \/ NextSched
  \/ \E result \in AgentResult : SchedCallbackThrows(result)
  \/ SchedMarkThrows

GuardSpec == Init /\ [][NextGuard]_vars

\* ------------------------------------------------------------------------
\* main/index.ts: delete-all-data
\* ------------------------------------------------------------------------

\* db.deleteAllData(): every table is cleared, in one transaction
deleteAllData ==
  [emails |-> <<>>, events |-> <<>>, research_results |-> {},
   insights_results |-> {}, insights_action_log |-> <<>>]

\* ipcMain.handle('delete-all-data'): db.deleteAllData(), signOut(), return
\* {success: true}.  The handler touches neither the scheduler's guard and
\* snapshot, nor the pending timers, nor the calls that are awaiting the
\* model or a provider.
DeleteAllData ==
  /\ wipes < MaxWipes
  /\ wipes' = wipes + 1
  /\ emails' = deleteAllData.emails
  /\ events' = deleteAllData.events
  /\ research_results' = deleteAllData.research_results
  /\ insights_results' = deleteAllData.insights_results
  /\ insights_action_log' = deleteAllData.insights_action_log
  /\ savedResult' = [k \in Keys |-> <<>>]
  /\ lastUpsert' = <<>>
  /\ dirty' = dirty \cup InFlightManual
  /\ isAuthenticated' = FALSE
  /\ last' = Observe("delete-all-data", NoKey, NoRet, {})
  /\ UNCHANGED <<schedVars, timers, manual, insightsRuns, execs, gmailSends,
                 calendarInserts, clockVars, agentVars>>

\* Ingestion of the fixtures, manual runs, insights runs, executions of
\* email actions, and the wipe.
NextWipe ==
  \/ FetchAndUpsertEmails(MOCK_EMAILS)
  \/ FetchAndUpsertEvents(MOCK_EVENTS)
  \/ \E key \in Keys : ManualStart(key)
  \/ \E key \in Keys, result \in AgentResult : ManualOk(key, result)
  \/ \E key \in Transcripts : RunInsightsStart(key)
  \/ \E key \in Transcripts, result \in TranscriptInsights : RunInsightsOk(key, result)
  \/ \E key \in Transcripts, actionIndex \in ActionIndexes : ExecEmailSend(key, actionIndex)
  \/ \E n \in 1..MaxExec, result \in ProviderResults : ExecProviderDone(n, result)
  \/ DeleteAllData

WipeSpec == Init /\ [][NextWipe]_vars

\* Ingestion of the fixtures, the scheduler, manual runs, and the wipe.
NextSchedWipe ==
  \/ FetchAndUpsertEmails(MOCK_EMAILS)
  \/ FetchAndUpsertEvents(MOCK_EVENTS)
  \/ TriggerDropped
  \/ TriggerNoWork
  \/ RunStart
  \/ \E result \in AgentResult : SchedModelOk(result)
  \/ SchedModelFail
  \/ \E key \in Keys : ManualStart(key)
  \/ \E key \in Keys, result \in AgentResult : ManualOk(key, result)
  \/ DeleteAllData

SchedWipeSpec == Init /\ [][NextSchedWipe]_vars

TypeOK ==
  /\ isProcessing \in BOOLEAN
  /\ timers \in 0..MaxTimers
  /\ idx \in 0..(Len(items) + 1)

\* ------------------------------------------------------------------------
\* Properties
\* ------------------------------------------------------------------------

RunEnded == ~isProcessing /\ idx > 0

\* C1: whatever the interleaving of debounce timers, at most one
\* processNewItems run is between its snapshot and the reset of isProcessing,
\* and the guard is set exactly while that run is in flight.
C1_SingleFlight == running <= 1 /\ (isProcessing <=> running = 1)

\* a trigger was dropped during a run over two or more items
C1_Witness == last.op = "dropped" /\ running = 1 /\ Len(items) >= 2

\* C2: a processNewItems call arriving during a run returns 0, invokes the
\* model for nothing and changes neither the store nor the run in flight; the
\* run handles every snapshot item exactly once, in one pass.
C2_DroppedTriggerIsNoOp ==
  /\ [][TriggerDropped =>
          /\ last'.ret = CountRet(0)
          /\ last'.invoked = {}
          /\ UNCHANGED storeVars
          /\ UNCHANGED schedVars]_vars
  /\ [](idx > 0 => /\ Len(outcome) = idx - 1
                   /\ (isProcessing => idx <= Len(items))
                   /\ (~isProcessing => idx = Len(items) + 1))

\* a trigger was dropped between the first and the second item of a run
C2_Witness ==
  /\ last.op = "dropped"
  /\ isProcessing
  /\ Len(items) = 2
  /\ idx = 2

\* C3: when a scheduler run ends, every snapshot item has been handled and
\* is marked processed, and a result is cached for exactly the items whose
\* model call succeeded (none for those whose call failed).
C3_PoisonPill ==
  RunEnded =>
    /\ Len(outcome) = Len(items)
    /\ \A i \in 1..Len(items) :
         /\ IsProcessed(items[i])
         /\ (Cached(items[i]) <=> outcome[i] = "ok")

\* a run over three items has ended whose second model call failed
C3_Witness == RunEnded /\ outcome = <<"ok", "fail", "ok">>

\* C4 (as claimed): when the guard clears while unprocessed items are
\* stored, a trigger is pending that will start the subsequent run.
C4_RetriggerAfterRun ==
  [][(isProcessing /\ ~isProcessing' /\ getUnprocessedItems' # <<>>) => timers' > 0]_vars

IngestedWhileIdle ==
  /\ last.op \in {"get-emails", "get-events"}
  /\ last.ret.value.newCount > 0
  /\ ~isProcessing

\* C5: after an ingestion that found new items while the scheduler was idle,
\* every unprocessed item is eventually processed and has a result (model
\* calls succeeding); get-research then returns the saved result without
\* invoking the model or writing anything.
C5_EndToEnd ==
  /\ \A key \in Keys :
       (IngestedWhileIdle /\ Stored(key) /\ ~IsProcessed(key))
         ~> (IsProcessed(key) /\ Cached(key))
  /\ [][\A key \in Keys :
         (GetResearch(key) /\ Cached(key)) =>
           /\ last'.ret = ResultRet(savedResult[key][1])
           /\ last'.invoked = {}
           /\ UNCHANGED <<storeVars, schedVars>>]_vars

\* every item is processed and cached and get-research returned a result
C5_Witness ==
  /\ last.op = "get-research"
  /\ last.ret.kind = "result"
  /\ \A key \in Keys : IsProcessed(key) /\ Cached(key)

\* C6: run-research on a key with a cached result returns exactly the result
\* last saved for the key, invokes the model for nothing and writes nothing;
\* a call that ran the model returns what it stored, so the next call for
\* the key returns the same value.
C6_CacheHit ==
  [][\A key \in Keys :
       /\ ManualHit(key) =>
             /\ last'.ret = ResultRet(savedResult[key][1])
             /\ last'.invoked = {}
             /\ UNCHANGED storeVars
       /\ \A result \in AgentResult :
             ManualOk(key, result) =>
               /\ last'.ret = ResultRet(result)
               /\ getResearch(research_results', key) = <<result>>]_vars

\* a cache hit returned a result that carries a search query
C6_Witness ==
  /\ last.op = "run-hit"
  /\ last.ret.kind = "result"
  /\ Len(last.ret.value.toolCalls) > 0

\* C7: a manual run whose model call fails raises the error, writes nothing
\* to the store, and (no other run having written the key meanwhile) leaves
\* the key without result and the processed flag as it was.
C7_ManualFailure ==
  [][\A key \in Keys :
       ManualFail(key) =>
         /\ last'.ret = ErrorRet
         /\ UNCHANGED storeVars
         /\ (key \notin dirty => getResearch(research_results', key) = <<>>)]_vars

\* a manual run failed on a stored item that is left unprocessed and uncached
C7_Witness ==
  /\ last.op = "run-fail"
  /\ Stored(last.key)
  /\ ~IsProcessed(last.key)
  /\ ~Cached(last.key)

batchIds(batch) == {batch[i].id : i \in DOMAIN batch}
lastOf(batch, id) ==
  batch[CHOOSE i \in DOMAIN batch :
          batch[i].id = id /\ \A j \in DOMAIN batch : batch[j].id = id => j <= i]

\* C9: an upsert of N items none of whose ids is stored returns N; the same
\* batch upserted again right after returns 0; after either call the stored
\* content fields of every id of the batch are those of the call.
C9_UpsertTwice ==
  [][/\ last'.op = "upsertEmails" =>
          LET batch == lastUpsert'[1].batch IN
            /\ batchIds(batch) \cap existingIdsOf(emails) = {}
                 => last'.ret = CountRet(Len(batch))
            /\ RepeatOf("email", batch) => last'.ret = CountRet(0)
            /\ \A id \in batchIds(batch) :
                 emails'[rowIndex(emails', id)].content = lastOf(batch, id).content
     /\ last'.op = "upsertEvents" =>
          LET batch == lastUpsert'[1].batch IN
            /\ batchIds(batch) \cap existingIdsOf(events) = {}
                 => last'.ret = CountRet(Len(batch))
            /\ RepeatOf("calendar", batch) => last'.ret = CountRet(0)
            /\ \A id \in batchIds(batch) :
                 /\ events'[rowIndex(events', id)].content = lastOf(batch, id).content
                 /\ events'[rowIndex(events', id)].location = lastOf(batch, id).location
    ]_vars

\* a batch of two emails was upserted a second time and 0 was returned,
\* after another version of their content had been stored
C9_Witness ==
  /\ last.op = "upsertEmails"
  /\ last.ret = CountRet(0)
  /\ lastUpsert # <<>>
  /\ lastUpsert[1].again
  /\ Len(lastUpsert[1].batch) = 2
  /\ Cardinality(batchIds(lastUpsert[1].batch)) = 2
  /\ \A i \in DOMAIN emails : emails[i].content = 2

\* C10 (as claimed): upsert returns the number of distinct ids of the batch
\* that were not stored before the call, which is the growth of the id set.
C10_NewCountIsGrowth ==
  [][/\ last'.op = "upsertEmails" =>
          LET batch == lastUpsert'[1].batch IN
            /\ last'.ret = CountRet(Cardinality(batchIds(batch) \ existingIdsOf(emails)))
            /\ last'.ret = CountRet(Cardinality(existingIdsOf(emails'))
                                     - Cardinality(existingIdsOf(emails)))
     /\ last'.op = "upsertEvents" =>
          LET batch == lastUpsert'[1].batch IN
            /\ last'.ret = CountRet(Cardinality(batchIds(batch) \ existingIdsOf(events)))
            /\ last'.ret = CountRet(Cardinality(existingIdsOf(events'))
                                     - Cardinality(existingIdsOf(events)))
    ]_vars

\* C11: an upsert leaves every stored row in its place with its id and its
\* processed flag (a processed item stays processed, an unprocessed one is
\* not marked), removes no row, and gives each row of the batch the content
\* fields of the call.
C11_UpsertKeepsFlagAndId ==
  [][/\ last'.op = "upsertEmails" =>
          /\ Len(emails') >= Len(emails)
          /\ \A i \in DOMAIN emails :
                /\ emails'[i].id = emails[i].id
                /\ emails'[i].processed = emails[i].processed
                /\ emails[i].id \in batchIds(lastUpsert'[1].batch)
                     => emails'[i].content = lastOf(lastUpsert'[1].batch, emails[i].id).content
                /\ emails[i].id \notin batchIds(lastUpsert'[1].batch)
                     => emails'[i] = emails[i]
     /\ last'.op = "upsertEvents" =>
          /\ Len(events') >= Len(events)
          /\ \A i \in DOMAIN events :
                /\ events'[i].id = events[i].id
                /\ events'[i].processed = events[i].processed
                /\ events[i].id \notin batchIds(lastUpsert'[1].batch)
                     => events'[i] = events[i]
    ]_vars

\* an upsert has just refreshed the content of a processed email, next to
\* an unprocessed one
C11_Witness ==
  /\ last.op = "upsertEmails"
  /\ \E i, j \in DOMAIN emails :
       /\ emails[i].processed /\ emails[i].content = 2
       /\ emails[i].id \in batchIds(lastUpsert[1].batch)
       /\ ~emails[j].processed

logRow(key, actionIndex, status) ==
  [source_type |-> key[1], source_id |-> key[2], action_index |-> actionIndex,
   status |-> status, executed_at |-> now]

\* C13: executing an email action in which to, subject or body is absent
\* returns status failed with an error description, calls no provider, and
\* appends exactly one 'failed' record for the action to the log.
C13_MissingEmailFieldFails ==
  [][\A key \in InsightKeys, actionIndex \in ActionIndexes :
       (/\ ExecuteAction(key, actionIndex)
        /\ cachedAction(key, actionIndex) # <<>>
        /\ cachedAction(key, actionIndex)[1].type = "email"
        /\ Absent \in {cachedAction(key, actionIndex)[1].to,
                       cachedAction(key, actionIndex)[1].subject,
                       cachedAction(key, actionIndex)[1].body})
       => /\ last'.ret.kind = "execution"
          /\ last'.ret.value.status = "failed"
          /\ last'.ret.value.error # Absent
          /\ UNCHANGED <<gmailSends, calendarInserts, execs>>
          /\ insights_action_log' = Append(insights_action_log, logRow(key, actionIndex, "failed"))
    ]_vars

\* an email action with only its body absent was executed after an earlier
\* execution: failed, two log records, no provider call at all
C13_Witness ==
  /\ last.op = "execute-action"
  /\ last.ret.kind = "execution"
  /\ last.ret.value.status = "failed"
  /\ cachedAction(last.key, last.ret.value.actionIndex) # <<>>
  /\ LET action == cachedAction(last.key, last.ret.value.actionIndex)[1] IN
       action.type = "email" /\ action.body = Absent /\ action.to # Absent
         /\ action.subject # Absent
  /\ Len(insights_action_log) = 2
  /\ gmailSends = 0

\* C14: a step in which executeAction returns an outcome appends exactly one
\* record (key, actionIndex, returned status) to the action log, every other
\* step leaves the log as it is; a provider success returns executed with
\* the provider's identifier.
C14_EveryOutcomeLogged ==
  [][/\ last'.ret.kind = "execution" =>
          insights_action_log' =
            Append(insights_action_log,
                   logRow(last'.key, last'.ret.value.actionIndex, last'.ret.value.status))
     /\ last'.ret.kind # "execution" => insights_action_log' = insights_action_log
     /\ \A n \in 1..MaxExec, result \in ProviderResults :
          (ExecProviderDone(n, result) /\ result.success)
          => /\ last'.ret.value.status = "executed"
             /\ last'.ret.value.id = result.id
    ]_vars

\* one execution of a complete email action: executed, the provider's id,
\* one send, one log record
C14_Witness ==
  /\ last.op = "execute-done"
  /\ last.ret.kind = "execution"
  /\ last.ret.value.status = "executed"
  /\ last.ret.value.id = Given("id-1")
  /\ gmailSends = 1 /\ calendarInserts = 0
  /\ insights_action_log = <<logRow(last.key, 0, "executed")>>

\* C15: executeAction raises an error when no insights are cached for the key
\* or the index is outside 0..length-1 (negative included); nothing is sent,
\* created or written.
C15_LookupFailuresRaise ==
  [][\A key \in InsightKeys, actionIndex \in ActionIndexes :
       (/\ ExecuteAction(key, actionIndex)
        /\ \/ getInsights(insights_results, key) = <<>>
           \/ actionIndex < 0
           \/ actionIndex >= Len(getInsights(insights_results, key)[1].actionSteps))
       => /\ last'.ret = ErrorRet
          /\ UNCHANGED <<insightVars, pipelineVars, clockVars, isAuthenticated>>
    ]_vars

\* executeAction has just raised although insights with an action step are
\* cached for the key (the index was out of range), with a record logged
C15_Witness ==
  /\ last.op = "execute-action"
  /\ last.ret = ErrorRet
  /\ getInsights(insights_results, last.key) # <<>>
  /\ Len(getInsights(insights_results, last.key)[1].actionSteps) = 1
  /\ insights_action_log # <<>>

C17_NextBusinessDayStart ==
  meetingCall # <<>> =>
    LET start == meetingCall[1].start IN
      /\ start.hour = 10 /\ start.minute = 0
      /\ start.day % 7 \in 1..5
      /\ start.day > now.day
      /\ \A day \in (now.day + 1)..(start.day - 1) : day % 7 \in {0, 6}
      /\ (now.day % 7 = 5 /\ now.hour = 15 /\ now.minute = 0)
           => start = [day |-> now.day + 3, hour |-> 10, minute |-> 0]

\* computed on a Friday at 15:00: the start is three days later
C17_Witness ==
  /\ now.day % 7 = 5 /\ now.hour = 15 /\ now.minute = 0
  /\ meetingCall # <<>>
  /\ meetingCall[1].start.day = now.day + 3
  /\ meetingCall[1].start.day % 7 = 1

\* C18 (as claimed): executing a meeting action whose meetingSummary or
\* attendees is absent returns failed and does not call createCalendarEvent.
C18_MeetingFieldsRequired ==
  [][\A key \in InsightKeys, actionIndex \in ActionIndexes :
       (/\ ExecuteAction(key, actionIndex)
        /\ cachedAction(key, actionIndex) # <<>>
        /\ cachedAction(key, actionIndex)[1].type = "meeting"
        /\ Absent \in {cachedAction(key, actionIndex)[1].meetingSummary,
                       cachedAction(key, actionIndex)[1].attendees})
       => /\ last'.ret.kind = "execution"
          /\ last'.ret.value.status = "failed"
          /\ calendarInserts' = calendarInserts
    ]_vars

InsightsOps == {"insights-hit", "insights-start", "insights-ok", "insights-fail"}
ExecutorOps == {"execute-action", "execute-start", "execute-done"}

\* C19: a failing insights run raises an error and persists nothing, so the
\* key is a cache miss afterwards when it was one before; no step of an
\* insights run changes an item (its processed flag included) or a research
\* result.
C19_InsightsFailurePersistsNothing ==
  [][/\ \A key \in InsightKeys :
          RunInsightsFail(key)
          => /\ last'.ret = ErrorRet
             /\ insights_results' = insights_results
             /\ getInsights(insights_results, key) = <<>>
                  => getInsights(insights_results', key) = <<>>
     /\ last'.op \in InsightsOps => UNCHANGED <<emails, events, research_results>>
    ]_vars

\* an insights run has just failed for a key that is still not cached, while
\* the store holds a processed item with a research result and an unprocessed one
C19_Witness ==
  /\ last.op = "insights-fail"
  /\ getInsights(insights_results, last.key) = <<>>
  /\ \E k1, k2 \in Keys : IsProcessed(k1) /\ Cached(k1) /\ Stored(k2) /\ ~IsProcessed(k2)

C21_OneResultPerKey ==
  /\ [](/\ \A key \in Keys :
             /\ Cardinality(researchRows(research_results, key)) <= 1
             /\ getResearch(research_results, key) = savedResult[key]
        /\ \A key \in InsightKeys : Cardinality(insightsRows(insights_results, key)) <= 1)
  /\ [][/\ \A key \in Keys, result \in AgentResult :
             SaveResearch(key, result) =>
               /\ getResearch(research_results', key) = <<result>>
               /\ \A other \in Keys \ {key} :
                    getResearch(research_results', other) = getResearch(research_results, other)
        /\ \A key \in InsightKeys, result \in InsightsResult :
             SaveInsights(key, result) =>
               /\ getInsights(insights_results', key) = <<result>>
               /\ \A other \in InsightKeys \ {key} :
                    getInsights(insights_results', other) = getInsights(insights_results, other)
        /\ last'.op \notin {"saveResearch", "saveInsights"}
             => UNCHANGED <<research_results, insights_results>>
        /\ \A key \in InsightKeys :
             GetInsights(key) =>
               last'.ret = IF getInsights(insights_results, key) = <<>> THEN NullRet
                           ELSE ResultRet(getInsights(insights_results, key)[1])
       ]_vars

\* a result without action steps has just been saved for an insights key
\* while another insights key holds a result with an action step, one
\* research key holds a result with a search query and another was never saved
C21_Witness ==
  /\ last.op = "saveInsights"
  /\ getInsights(insights_results, last.key) = <<[actionSteps |-> <<>>]>>
  /\ \E other \in InsightKeys \ {last.key} :
       /\ getInsights(insights_results, other) # <<>>
       /\ getInsights(insights_results, other)[1].actionSteps # <<>>
  /\ \E k1, k2 \in Keys :
       /\ savedResult[k1] # <<>> /\ savedResult[k1][1].toolCalls # <<>>
       /\ getResearch(research_results, k2) = <<>>

\* C22: an upsert in which a write fails throws and leaves both item tables
\* exactly as they were before the call, whichever write of the batch it was;
\* an upsert that returns has applied every item of its batch.
C22_UpsertIsAtomic ==
  [][/\ last'.op \in {"upsertEmails-throws", "upsertEvents-throws"}
          => last'.ret = ErrorRet /\ emails' = emails /\ events' = events
     /\ last'.op = "upsertEmails"
          => LET batch == lastUpsert'[1].batch IN
               /\ last'.ret.kind = "count"
               /\ \A id \in batchIds(batch) :
                    /\ id \in existingIdsOf(emails')
                    /\ emails'[rowIndex(emails', id)].content = lastOf(batch, id).content
     /\ last'.op = "upsertEvents"
          => LET batch == lastUpsert'[1].batch IN
               /\ last'.ret.kind = "count"
               /\ \A id \in batchIds(batch) :
                    /\ id \in existingIdsOf(events')
                    /\ events'[rowIndex(events', id)].content = lastOf(batch, id).content
                    /\ events'[rowIndex(events', id)].location
                         = orNull(lastOf(batch, id).location)
    ]_vars

\* an upsert of two emails has just thrown: one id of the batch is not
\* stored, the other is stored, processed, with a content the batch would
\* have replaced
C22_Witness ==
  /\ last.op = "upsertEmails-throws"
  /\ Len(lastUpsert[1].batch) = 2
  /\ \E i, j \in DOMAIN lastUpsert[1].batch :
       /\ lastUpsert[1].batch[i].id \notin existingIdsOf(emails)
       /\ lastUpsert[1].batch[j].id \in existingIdsOf(emails)
       /\ emails[rowIndex(emails, lastUpsert[1].batch[j].id)].content
            # lastUpsert[1].batch[j].content
       /\ emails[rowIndex(emails, lastUpsert[1].batch[j].id)].processed

appendedFor(log, key) ==
  LET mine(r) == r.source_type = key[1] /\ r.source_id = key[2]
      rows == SelectSeq(log, mine)
  IN [i \in DOMAIN rows |-> [actionIndex |-> rows[i].action_index, status |-> rows[i].status,
                             executedAt |-> rows[i].executed_at]]

reversed(seq) == [i \in DOMAIN seq |-> seq[Len(seq) + 1 - i]]

\* C23 (as claimed): getActionLog returns exactly the records appended for
\* the source in the reverse of the order in which they were appended, also
\* when two of them carry the same executed_at.
C23_NewestFirst ==
  [][last'.op = "get-action-log"
       => last'.ret = LogRet(reversed(appendedFor(insights_action_log, last'.key)))]_vars

RunOps == {"start", "sched-ok", "sched-fail"}

\* the onItemProcessed calls for the snapshot positions from..to, in order:
\* one for every position whose research succeeded
callbacksOf(snapshot, outcomes, from, to) ==
  LET positions == [j \in 1..(to - from + 1) |-> from + j - 1]
      succeeded(i) == outcomes[i] \in {"ok", "hit"}
      sel == SelectSeq(positions, succeeded)
  IN [j \in DOMAIN sel |-> ItemProcessed(snapshot[sel[j]])]

itemCallbacks(sent) ==
  LET isItem(n) == n.event = "item-processed" IN SelectSeq(sent, isItem)

\* C24: the scheduler has at most one model call in flight; a step of a run
\* handles the snapshot positions following those already handled, in
\* snapshot order, and when it invokes the model for the next position every
\* earlier position has its outcome, its processed flag, its cached result
\* (if its call succeeded) and its callback.
C24_StrictlySequential ==
  /\ [](running <= 1)
  /\ [][last'.op \in RunOps =>
          /\ Cardinality(last'.invoked) <= 1
          /\ last'.op # "start" =>
               /\ items' = items
               /\ last'.key = items[Len(outcome) + 1]
               /\ Len(outcome') > Len(outcome)
               /\ SubSeq(outcome', 1, Len(outcome)) = outcome
          /\ itemCallbacks(last'.sent)
               = callbacksOf(items', outcome',
                             IF last'.op = "start" THEN 1 ELSE Len(outcome) + 1, Len(outcome'))
          /\ last'.invoked # {} =>
               /\ last'.invoked = {items'[Len(outcome') + 1]}
               /\ \A i \in 1..Len(outcome') :
                    /\ IsProcessed(items[i])'
                    /\ outcome'[i] \in {"ok", "hit"} => Cached(items[i])'
       ]_vars

\* the model has just been invoked for the third snapshot item after the
\* first item's call failed and the second item was found cached
C24_Witness ==
  /\ last.op = "sched-fail"
  /\ Awaiting
  /\ idx = 3
  /\ outcome = <<"fail", "hit">>
  /\ last.invoked = {items[3]}
  /\ last.sent = <<ItemProcessed(items[2])>>

keysOf(snapshot) == {snapshot[i] : i \in DOMAIN snapshot}

\* C25: a run's snapshot is what getUnprocessedItems returned when the run
\* started and stays as it is in every later step (of the run or of an
\* ingestion); the run invokes the model only for snapshot items, handles the
\* positions one by one, and has handled every position when it ends.
C25_SnapshotOnce ==
  /\ [][/\ last'.op = "start" => items' = getUnprocessedItems
        /\ last'.op # "start" => items' = items
        /\ last'.op \in RunOps =>
             /\ last'.invoked \subseteq keysOf(items')
             /\ Len(outcome') = idx' - 1
        /\ last'.op \in {"sched-ok", "sched-fail"} =>
             /\ idx' > idx
             /\ last'.key = items[idx]
       ]_vars
  /\ [](RunEnded => Len(outcome) = Len(items) /\ idx = Len(items) + 1)

\* a run over two items has ended while an item ingested after its snapshot
\* is stored and still unprocessed
C25_Witness ==
  /\ RunEnded
  /\ last.op \in {"sched-ok", "sched-fail"}
  /\ Len(items) = 2
  /\ \E key \in Keys : Stored(key) /\ ~IsProcessed(key) /\ key \notin keysOf(items)

completions(sent) ==
  LET isComplete(n) == n.event = "processing-complete" IN Len(SelectSeq(sent, isComplete))

\* C26 (as claimed): 'processing-complete' is sent only in a step in which a
\* run goes from running to idle, once, after the run's snapshot is
\* exhausted, and never in a step that leaves a run in flight.
C26_CompleteOnRunEndOnly ==
  [][/\ completions(last'.sent) > 0 => isProcessing /\ ~isProcessing'
     /\ (isProcessing /\ ~isProcessing')
          => completions(last'.sent) = 1 /\ Len(outcome') = Len(items')
     /\ isProcessing' => completions(last'.sent) = 0
    ]_vars

\* C27: a step of a run calls onItemProcessed once for every snapshot
\* position it has handled whose research succeeded, in snapshot order, with
\* the item's (type, id), when the item's result can be read from the store,
\* and for no position whose research failed or which is yet to be handled
\* (the item the model is invoked for next included); no other step calls it.
C27_ItemCallback ==
  [][/\ last'.op \in RunOps =>
          LET from == IF last'.op = "start" THEN 1 ELSE Len(outcome) + 1
              called == itemCallbacks(last'.sent)
          IN /\ called = callbacksOf(items', outcome', from, Len(outcome'))
             /\ \A n \in DOMAIN called :
                  /\ getResearch(research_results', called[n].key) # <<>>
                  /\ called[n].key \notin last'.invoked
                  /\ \A o \in DOMAIN called : called[o].key = called[n].key => o = n
             /\ \A i \in from..Len(outcome') :
                  outcome'[i] = "fail" => \A n \in DOMAIN called : called[n].key # items'[i]
             /\ last'.op = "sched-ok" =>
                  /\ called # <<>>
                  /\ called[1] = ItemProcessed(last'.key)
                  /\ getResearch(research_results', last'.key) = savedResult'[last'.key]
     /\ last'.op \notin RunOps => itemCallbacks(last'.sent) = <<>>
    ]_vars

\* the second of three snapshot items has just succeeded after the first
\* failed: one callback, for the second item, whose result is stored, and
\* the model is invoked for the third
C27_Witness ==
  /\ last.op = "sched-ok"
  /\ Awaiting
  /\ Len(items) = 3
  /\ outcome = <<"fail", "ok">>
  /\ last.sent = <<ItemProcessed(items[2])>>
  /\ Cached(items[2])
  /\ ~Cached(items[1])
  /\ last.invoked = {items[3]}

\* the unprocessed items ingested since the latest snapshot was taken
NewItems == {key \in StoredKeys : ~IsProcessed(key) /\ key \notin keysOf(items)}

\* the triggers of two ingestions are pending together (neither timer has
\* fired) and the email e and the calendar event c are among the new items
PairPending(e, c) ==
  /\ timers = 2
  /\ e[1] = "email" /\ c[1] = "calendar"
  /\ e \in NewItems /\ c \in NewItems

\* C28 (as claimed): when the triggers of an email ingestion and of a
\* calendar ingestion that both found new items are pending together, a
\* scheduler run enters running whose snapshot contains the new items of
\* both (timers firing and model calls completing).
C28_TriggersCoalesce ==
  \A e \in Keys, c \in Keys :
    PairPending(e, c) ~> (idx > 0 /\ {e, c} \subseteq keysOf(items))

C30_ProcessedMonotonic ==
  /\ [][\A key \in Keys :
          /\ (~Stored(key) /\ Stored(key)') => ~IsProcessed(key)'
          /\ IsProcessed(key) => IsProcessed(key)'
          /\ (~IsProcessed(key) /\ IsProcessed(key)') =>
               /\ last'.op \in {"sched-ok", "sched-fail", "run-ok"}
               /\ last'.key = key
               /\ last'.op \in {"sched-ok", "run-ok"} => Cached(key)'
       ]_vars
  /\ [](\A key \in Keys :
          IsProcessed(key) =>
            markProcessed(emails, events, key[1], key[2]) = [emails |-> emails, events |-> events])

\* an ingestion that found nothing new has just returned while one item is
\* processed without result, another is processed with a result and a third
\* is stored unprocessed
C30_Witness ==
  /\ last.op = "get-emails"
  /\ last.ret.value.newCount = 0
  /\ \E k1, k2, k3 \in Keys :
       /\ IsProcessed(k1) /\ ~Cached(k1)
       /\ IsProcessed(k2) /\ Cached(k2)
       /\ Stored(k3) /\ ~IsProcessed(k3)

\* C31: no step changes or removes a record of the action log (it only
\* grows at its end); executing an email action with all its fields calls
\* sendGmailReply, and executing a meeting action calls createCalendarEvent,
\* whatever records the log already holds for the action; every provider
\* call that has resolved has left its own record.
C31_LogIsAppendOnlyHistory ==
  /\ [][/\ Len(insights_action_log') >= Len(insights_action_log)
        /\ SubSeq(insights_action_log', 1, Len(insights_action_log)) = insights_action_log
        /\ \A key \in InsightKeys, actionIndex \in ActionIndexes :
             (ExecuteAction(key, actionIndex) /\ cachedAction(key, actionIndex) # <<>>) =>
               LET action == cachedAction(key, actionIndex)[1] IN
                 /\ (/\ action.type = "email"
                     /\ Absent \notin {action.to, action.subject, action.body})
                      => /\ gmailSends' = gmailSends + 1
                         /\ Len(execs') = Len(execs) + 1
                 /\ action.type = "meeting"
                      => /\ calendarInserts' = calendarInserts + 1
                         /\ Len(execs') = Len(execs) + 1
        /\ last'.op = "execute-done" =>
             /\ Len(insights_action_log') = Len(insights_action_log) + 1
             /\ Len(execs') = Len(execs) - 1
       ]_vars
  /\ [](Len(insights_action_log) >= gmailSends + calendarInserts - Len(execs))

\* the same email action was executed twice: two sends, two 'executed'
\* records for the same (sourceType, sourceId, actionIndex)
C31_Witness ==
  /\ last.op = "execute-done"
  /\ gmailSends = 2
  /\ Len(insights_action_log) = 2
  /\ insights_action_log[1].status = "executed"
  /\ insights_action_log[2].status = "executed"
  /\ insights_action_log[1].source_id = insights_action_log[2].source_id
  /\ insights_action_log[1].source_type = insights_action_log[2].source_type
  /\ insights_action_log[1].action_index = insights_action_log[2].action_index

\* C32: a generateText call never has more than 10 steps and asks the model
\* for a further step only when every tool call of the step before has
\* resolved; the step that reaches the cap ends the run as any final step
\* does: the run returns its result, the result is the stored
\* ResearchResult of the item and the item, when stored, is marked processed.
C32_StepCapIsNotFailure ==
  /\ [](agent # <<>> =>
          /\ agent[1].stepCount <= StepLimit
          /\ agent[1].phase = "model" =>
               /\ agent[1].stepCount < StepLimit
               /\ Len(agent[1].results) = Len(agent[1].toolCalls))
  /\ [][(agent # <<>> /\ StepFinish) =>
          LET key == agent[1].key IN
          /\ (agent[1].stepCount + 1 = StepLimit \/ agent[1].toolCalls = <<>>)
               <=> last'.op = "agent-ok"
          /\ last'.op = "agent-ok" =>
               /\ agent'[1].phase = "done"
               /\ last'.ret = ResultRet([output |-> "text",
                                         toolCalls |-> agent'[1].toolCallLog])
               /\ getResearch(research_results', key) = <<last'.ret.value>>
               /\ Stored(key) => IsProcessed(key)'
        ]_vars

\* a run over a stored item ended at its tenth step, which had tool calls
C32_Witness ==
  /\ last.op = "agent-ok"
  /\ agent[1].stepCount = StepLimit
  /\ agent[1].toolCalls # <<>>
  /\ Stored(agent[1].key)
  /\ IsProcessed(agent[1].key)
  /\ getResearch(research_results, agent[1].key) # <<>>

\* the {tool, query} entries for a sequence of queries
entriesOf(queries) ==
  [i \in DOMAIN queries |-> [tool |-> "linkupSearch", query |-> queries[i]]]

\* C33: the searches invoked so far are, in their order, the entries of
\* toolCallLog followed by the resolved calls of the step in progress; when the
\* run has ended with a result, toolCallLog lists every search invoked, in
\* invocation order, and is the toolCalls of the stored ResearchResult; a
\* search that fails gives the model a value with an error, raises nothing
\* and leaves the run going.
C33_ToolCallsListEverySearch ==
  /\ [](agent # <<>> =>
          LET run == agent[1]
              resolved == [i \in 1..Len(run.results) |-> run.toolCalls[i].input.query]
          IN /\ run.phase = "tools" =>
                  entriesOf(run.searches) = run.toolCallLog \o entriesOf(resolved)
             /\ run.phase = "model" => run.toolCallLog = entriesOf(run.searches)
             /\ run.phase = "done" =>
                  /\ run.toolCallLog = entriesOf(run.searches)
                  /\ (last.op = "agent-ok" =>
                        getResearch(research_results, run.key)[1].toolCalls = run.toolCallLog))
  /\ [][\A searchOk \in BOOLEAN :
          (agent # <<>> /\ ToolExecute(searchOk)) =>
            LET tc == agent[1].toolCalls[Len(agent[1].results) + 1]
                out == agent'[1].results[Len(agent'[1].results)]
            IN /\ agent'[1].searches = Append(agent[1].searches, tc.input.query)
               /\ ~out.raised
               /\ (out.error # Absent) <=> ~searchOk
               /\ agent'[1].phase = "tools"
               /\ last'.ret # ErrorRet
        ]_vars

\* a run was persisted whose first step made the searches q2 and q1, one of
\* which failed: both are in the stored toolCalls, in the order of the calls
C33_Witness ==
  /\ last.op = "agent-ok"
  /\ agent[1].failures = 1
  /\ agent[1].searches = <<"q2", "q1">>
  /\ agent[1].stepCount = 2
  /\ getResearch(research_results, agent[1].key)[1].toolCalls =
       <<[tool |-> "linkupSearch", query |-> "q2"], [tool |-> "linkupSearch", query |-> "q1"]>>

\* C34: a get-emails / get-events request whose upsert reports newCount > 0
\* queues exactly one delayed call, one whose upsert reports 0 queues none,
\* and no other step queues one; newCount > 0 exactly when the request
\* stored an id that was not stored before; in the state in which the call
\* is queued the upsert is complete (the request returns the stored
\* collection) and processNewItems has not been entered.
C34_TriggerIffNewItems ==
  [][/\ last'.op \in {"get-emails", "get-events"} =>
          LET newCount == last'.ret.value.newCount IN
          /\ timers' = IF newCount > 0 THEN timers + 1 ELSE timers
          /\ newCount > 0 <=> StoredKeys' # StoredKeys
          /\ last'.op = "get-emails" => last'.ret.value.rows = getAllEmails(emails')
          /\ last'.op = "get-events" => last'.ret.value.rows = getAllEvents(events')
          /\ UNCHANGED schedVars
     /\ last'.op \notin {"get-emails", "get-events"} =>
          /\ timers' <= timers
          /\ StoredKeys' = StoredKeys
    ]_vars

\* one request stored two new emails and queued a single delayed call
C34_Witness ==
  /\ last.op = "get-emails"
  /\ last.ret.value.newCount = 2
  /\ Cardinality(last.ret.value.rows) = 2
  /\ timers = 1

\* C35 (as claimed): whenever no processNewItems call is between its
\* snapshot and its exit, the guard is clear, whatever threw during the
\* call; so a timer that fires then starts a run when there is work.
C35_GuardClearedOnEveryExit == running = 0 => ~isProcessing

\* model calls in flight for a key: the scheduler's, when its run is
\* suspended in the key's item, and the manual run-research calls
inFlightFor(key) ==
  manual[key] + (IF Awaiting /\ items[idx] = key THEN 1 ELSE 0)

\* C36 (as claimed): across the scheduler and manual run-research requests,
\* at most one model call is in flight for a research cache key.
C36_OneInvocationPerKey == \A key \in Keys : inFlightFor(key) <= 1

\* C37 (as claimed): the step that follows a completed wipe leaves the
\* tables of results and the action log empty.  (No operation both starts
\* and completes a model or provider call in one step, and after the wipe
\* nothing is cached, so a record written by that step comes from a call
\* that was in flight at the wipe.)
C37_NothingSurvivesTheWipe ==
  [][(last.op = "delete-all-data") =>
       /\ research_results' = {}
       /\ insights_results' = {}
       /\ insights_action_log' = <<>>
    ]_vars

\* C38 (as claimed): when a scheduler run ends, every item of its snapshot
\* for which runResearchAgent returned the cached result, and which is
\* stored, is marked processed.
C38_CacheHitIsMarked ==
  [][(last'.op \in RunOps /\ ~isProcessing' /\ idx' = Len(items') + 1) =>
       \A i \in DOMAIN items' : \A key \in Keys :
         (key = items'[i] /\ outcome'[i] = "hit" /\ Stored(key)') => IsProcessed(key)'
    ]_vars

====
